---- MODULE Spec2Model ----
(***************************************************************************)
(* A model of the Vintage Story server manager (Chronophylos/vs-mgr).      *)
(*                                                                         *)
(* The repository holds three programs that update the server:             *)
(*   "main"   - src/main.py, class VSServerManager and main()              *)
(*   "flat"   - src/updater.py with src/backup.py, src/services.py and     *)
(*              src/versioning.py: the orchestration of main.py split out  *)
(*              into classes, run by the same main()                       *)
(*   "vs_mgr" - src/src/vs_mgr/__init__.py with                            *)
(*              src/src/vs_mgr/updater.py, class UpdateManager, and        *)
(*              commands.perform_update (src/vs_manager/commands.py)       *)
(* The variable impl says which of the programs is running.                *)
(*                                                                         *)
(* Spec        the update run: dispatch, the steps of the update, the      *)
(*             finally blocks, the signal handler and Cleanup.             *)
(* SpecSync    the file sync alone, on directory trees: the mirror run and *)
(*             the fallback, for "main", "vs_mgr" and "flat" (the split    *)
(*             out src/updater.py over src/system.py, whose file           *)
(*             operations report a failure as False instead of raising).   *)
(* SpecExtract the extraction of the release archive, on path names.       *)
(* SpecRotate  create_backup and the rotation of the backup directory, for *)
(*             "main", "flat" (src/backup.py) and "vs_manager"            *)
(*             (src/vs_manager/backup.py).                                 *)
(* SpecCompare the comparison of two version strings.                      *)
(* SpecLive    Spec with weak fairness of the activation poll.             *)
(***************************************************************************)
EXTENDS Integers, Sequences, FiniteSets, TLC

VARIABLES
    \* ---- the update run ------------------------------------------------
    impl,                  \* which program runs: "main", "flat" or "vs_mgr"
    dry_run,               \* --dry-run
    skip_backup,           \* --skip-backup
    ignore_backup_failure, \* --ignore-backup-failure
    version_valid,         \* the version argument matches ^\d+\.\d+\.\d+$
    rsync_available,       \* shutil.which("rsync") is not None
    process_runner,        \* UpdateManager was given a process_runner
    service_exists,        \* the unit file exists (environment)
    url_accessible,        \* the download URL answers 200 (environment)
    service_active,        \* systemctl is-active says "active" (environment)
    pc,                    \* where the main flow stands
    exc,                   \* exception unwinding the main flow: "none", "exit"
    result,                \* `result` of main() / process_command()
    success,               \* `success` of UpdateManager.perform_update
    server_stopped,        \* self.server_stopped
    archive_name,          \* self.archive_name is set (non-empty)
    extracted_path,        \* self._extracted_path is set (vs_mgr)
    archive_present,       \* the downloaded archive file exists
    extracted_present,     \* the temp directory (the extracted tree) exists
    backup_file,           \* "none" or "path": what the backup step produced
    sync_log,              \* the sync strategies invoked, in order
    sync_status,           \* "not_begun", "in_progress", "completed", "failed"
    attempts,              \* status queries made by the activation poll
    version_probe,         \* what the post-start version probe found
    stop_probe,            \* what the post-stop status check found
    signals,               \* termination signals delivered so far
    trace,                 \* the steps executed, in order
    failed_steps,          \* the steps that ended in failure
    cmds,                  \* systemctl stop/start commands really executed
    cleanup_calls,         \* invocations of the Cleanup routine
    cleanup_starts,        \* start commands requested by Cleanup
    last_cleanup,          \* record of the latest Cleanup invocation
    exit_code,             \* the process exit status, "none" while running
    \* ---- the file sync on directory trees -------------------------------
    fs_target,             \* the server directory: top-level name -> entry
    fs_source,             \* the extracted release: top-level name -> entry
    fs_side,               \* the .old_update_files_<ts> side directory
    fs_before,             \* the server directory as the sync found it
    sync_pc,               \* where the sync stands
    sync_events,           \* what happened during the sync (failures, restore)
    \* ---- the extraction of the release archive --------------------------
    tar_dest,              \* the directory extracted into (a path)
    tar_members,           \* the member names of the archive (paths)
    tar_filter,            \* tarfile's default extraction filter
    tar_pc,                \* where the extraction stands
    tar_result,            \* "none", "ok", "rejected", "error"
    tar_written,           \* the absolute paths written by the extraction
    \* ---- the backup directory and its rotation --------------------------
    max_backups,           \* settings.max_backups
    bk_dir,                \* backup_dir: file name -> mtime, 0 when absent
    bk_at_rotate,          \* backup_dir as _rotate_backups found it
    bk_pc,                 \* where create_backup stands
    bk_events,             \* what happened (failures, rotation)
    bk_stat,               \* backup_dir itself: does it exist, who owns it
    bk_returned,           \* what create_backup / list_backups returned
    bk_temp_tar,           \* the intermediate (uncompressed) archive exists
    bk_rm_failed,          \* the backups the rotation failed to remove
    \* ---- the comparison of two version strings --------------------------
    cmp_a,                 \* ver1, a string
    cmp_b,                 \* ver2, a string
    cmp_pc,                \* where compare_versions stands
    cmp_result             \* what compare_versions returned, or that it raised

cfgVars == <<impl, dry_run, skip_backup, ignore_backup_failure, version_valid,
             rsync_available, process_runner, service_exists, url_accessible>>
fileVars == <<archive_present, extracted_present>>
cleanupVars == <<cleanup_calls, cleanup_starts, last_cleanup>>
syncVars == <<sync_log, sync_status>>
runVars == <<impl, dry_run, skip_backup, ignore_backup_failure, version_valid,
             rsync_available, process_runner, service_exists, url_accessible,
             service_active, pc, exc, result, success, server_stopped, archive_name,
             extracted_path, archive_present, extracted_present, backup_file,
             sync_log, sync_status, attempts, version_probe, stop_probe, signals, trace,
             failed_steps, cmds, cleanup_calls, cleanup_starts, last_cleanup,
             exit_code>>

\* the update-run variables the file sync does not use
runOnlyVars == <<skip_backup, ignore_backup_failure, version_valid,
                 service_exists, url_accessible, service_active, pc, exc, result, success,
                 server_stopped, archive_name, extracted_path,
                 archive_present, extracted_present, backup_file, attempts,
                 version_probe, stop_probe, signals, trace, failed_steps, cmds, cleanup_calls,
                 cleanup_starts, last_cleanup, exit_code>>
fsVars == <<fs_target, fs_source, fs_side, fs_before, sync_pc, sync_events>>
\* the variables of the component specifications, which the update run
\* leaves alone
tarVars == <<tar_dest, tar_members, tar_filter, tar_pc, tar_result,
             tar_written>>
bkVars == <<max_backups, bk_dir, bk_at_rotate, bk_pc, bk_events, bk_stat,
            bk_returned, bk_temp_tar, bk_rm_failed>>
cmpVars == <<cmp_a, cmp_b, cmp_pc, cmp_result>>
unitVars == <<fsVars, tarVars, bkVars, cmpVars>>

vars == <<runVars, unitVars>>

\* ---- bounds and program constants ---------------------------------------
MaxSignals == 1         \* termination signals delivered in one run
MaxMtime == 2           \* modification times of the backups found: 1..MaxMtime
MaxKeep == 2            \* settings.max_backups ranges over 0..MaxKeep
max_attempts == 5       \* the activation poll's retry budget

Impls == {"main", "flat", "vs_mgr"}
StepNames == {"preflight", "stop", "backup", "fetch", "extract", "sync",
              "start", "verify"}
BodyPcs == {"preflight", "stop", "backup", "fetch", "extract", "sync",
            "fallback", "sync2", "start", "poll", "verify"}
NoCleanup == [by |-> "nobody", flag |-> FALSE, active |-> FALSE,
              raised |-> FALSE, start_requested |-> FALSE,
              archive_found |-> FALSE, tree_found |-> FALSE,
              archive_tried |-> FALSE, tree_tried |-> FALSE]

(***************************************************************************)
(* Cleanup.  The outcome of one invocation, computed from the state at     *)
(* entry and from what the environment does: rmtree_ok / remove_ok say     *)
(* whether removing the temp tree / the archive succeeds, comes_up whether *)
(* the service is active after a start command.                            *)
(***************************************************************************)
main_cleanup_unflagged(rmtree_ok, remove_ok, comes_up) ==
    LET rm_tmp  == extracted_present /\ ~dry_run /\ rmtree_ok
        \* os.remove is not inside any try: its failure leaves cleanup()
        rm_arch == archive_name /\ archive_present /\ ~dry_run
        raised  == rm_arch /\ ~remove_ok
        restart == ~raised /\ ~service_active
                   /\ service_exists
    IN  [extracted       |-> extracted_present /\ ~rm_tmp,
         archive         |-> archive_present /\ ~(rm_arch /\ remove_ok),
         tree_tried      |-> extracted_present /\ ~dry_run,
         archive_tried   |-> rm_arch,
         raised          |-> raised,
         start_requested |-> restart,
         cmds            |-> IF restart /\ ~dry_run THEN <<"start">> ELSE <<>>,
         active          |-> IF restart /\ ~dry_run THEN comes_up
                                                    ELSE service_active]

main_cleanup(rmtree_ok, remove_ok, comes_up) ==
    LET rm_tmp  == extracted_present /\ ~dry_run /\ rmtree_ok
        \* os.remove is not inside any try: its failure leaves cleanup()
        rm_arch == archive_name /\ archive_present /\ ~dry_run
        raised  == rm_arch /\ ~remove_ok
        restart == ~raised /\ server_stopped /\ ~service_active
                   /\ service_exists
    IN  [extracted       |-> extracted_present /\ ~rm_tmp,
         archive         |-> archive_present /\ ~(rm_arch /\ remove_ok),
         tree_tried      |-> extracted_present /\ ~dry_run,
         archive_tried   |-> rm_arch,
         raised          |-> raised,
         start_requested |-> restart,
         cmds            |-> IF restart /\ ~dry_run THEN <<"start">> ELSE <<>>,
         active          |-> IF restart /\ ~dry_run THEN comes_up
                                                    ELSE service_active]

vs_mgr_cleanup(rmtree_ok, remove_ok, comes_up) ==
    [extracted       |-> extracted_present /\ ~(extracted_path /\ rmtree_ok),
     archive         |-> archive_present /\ ~(archive_name /\ remove_ok),
     tree_tried      |-> extracted_present /\ extracted_path,
     archive_tried   |-> archive_present /\ archive_name,
     raised          |-> FALSE,
     start_requested |-> FALSE,
     cmds            |-> <<>>,
     active          |-> service_active]

Cleanup(rmtree_ok, remove_ok, comes_up) ==
    IF impl # "vs_mgr" THEN main_cleanup(rmtree_ok, remove_ok, comes_up)
                     ELSE vs_mgr_cleanup(rmtree_ok, remove_ok, comes_up)

\* The state change of one Cleanup invocation with outcome o, made by `by`.
RunCleanup(by, o) ==
    /\ archive_present' = o.archive
    /\ extracted_present' = o.extracted
    /\ service_active' = o.active
    /\ cmds' = cmds \o o.cmds
    /\ cleanup_calls' = cleanup_calls + 1
    /\ cleanup_starts' = cleanup_starts + (IF o.start_requested THEN 1 ELSE 0)
    /\ last_cleanup' = [by |-> by, flag |-> server_stopped,
                        active |-> service_active, raised |-> o.raised,
                        start_requested |-> o.start_requested,
                        archive_found |-> archive_present,
                        tree_found |-> extracted_present,
                        archive_tried |-> o.archive_tried,
                        tree_tried |-> o.tree_tried]
    /\ trace' = Append(trace, "cleanup")

(***************************************************************************)
(* How a failing step leaves the update.  main.py: cmd_update returns 1    *)
(* and main() binds result.  vs_mgr: the step raises, perform_update's     *)
(* except clause sets success = False and its finally block runs.          *)
(***************************************************************************)
StepOf(p) ==
    IF p \in {"fallback", "sync2"} THEN "sync"
    ELSE IF p = "poll" THEN "start" ELSE p

StepFails ==
    /\ failed_steps' = failed_steps \cup {StepOf(pc)}
    /\ pc' = IF impl # "vs_mgr" THEN "dispatch_finally" ELSE "update_finally"
    /\ result' = IF impl # "vs_mgr" THEN "failure" ELSE result
    /\ success' = FALSE

(***************************************************************************)
(* Directory trees.  A tree maps each top-level name to an entry: nothing, *)
(* a file (content and modification time) or a directory of files.         *)
(***************************************************************************)
TopNames == {"serverconfig.json", "Mods", "modconfig", "server.bin", "assets"}
preserve_paths == {"serverconfig.json", "Mods", "modconfig"}
ChildNames == {"a", "b"}
NoEntry == [kind |-> "none"]
File(c, t) == [kind |-> "file", content |-> c, mtime |-> t]
NoChildren == [c \in ChildNames |-> NoEntry]
Dir(ch) == [kind |-> "dir", children |-> ch]
OneChild(c, f) == [x \in ChildNames |-> IF x = c THEN f ELSE NoEntry]
EmptyTree == [n \in TopNames |-> NoEntry]
NoSide == [exists |-> FALSE, entries |-> EmptyTree]

Items(tree) == {n \in TopNames : tree[n] # NoEntry}
Without(tree, names) ==
    [n \in TopNames |-> IF n \in names THEN NoEntry ELSE tree[n]]
Only(tree, names) ==
    [n \in TopNames |-> IF n \in names THEN tree[n] ELSE NoEntry]
Overlay(tree, over, names) ==
    [n \in TopNames |-> IF n \in names THEN over[n] ELSE tree[n]]

\* No file sync is under way (the update run models the sync by its outcome).
FsIdle ==
    /\ fs_target = EmptyTree
    /\ fs_source = EmptyTree
    /\ fs_side = NoSide
    /\ fs_before = EmptyTree
    /\ sync_pc = "idle"
    /\ sync_events = {}

\* No extraction is under way.
TarIdle ==
    /\ tar_dest = <<>>
    /\ tar_members = {}
    /\ tar_filter = "none"
    /\ tar_pc = "idle"
    /\ tar_result = "none"
    /\ tar_written = {}

\* No backup is under way.
BkIdle ==
    /\ max_backups = 0
    /\ bk_dir = <<>>
    /\ bk_at_rotate = <<>>
    /\ bk_pc = "idle"
    /\ bk_events = {}
    /\ bk_stat = [exists |-> FALSE, owner |-> "none"]
    /\ bk_returned = <<>>
    /\ bk_temp_tar = FALSE
    /\ bk_rm_failed = {}

\* No comparison is under way.
NoResult == [raised |-> FALSE, kind |-> "none", str |-> "", int |-> 0]
CmpIdle ==
    /\ cmp_a = <<>>
    /\ cmp_b = <<>>
    /\ cmp_pc = "idle"
    /\ cmp_result = NoResult

UnitsIdle == FsIdle /\ TarIdle /\ BkIdle /\ CmpIdle

Init ==
    /\ UnitsIdle
    /\ impl \in Impls
    /\ dry_run \in BOOLEAN
    /\ skip_backup \in BOOLEAN
    /\ ignore_backup_failure \in BOOLEAN
    /\ version_valid \in BOOLEAN
    /\ rsync_available \in BOOLEAN
    /\ process_runner \in (IF impl = "vs_mgr" THEN BOOLEAN ELSE {FALSE})
    /\ service_exists \in BOOLEAN
    /\ url_accessible \in BOOLEAN
    /\ service_active \in (IF service_exists THEN BOOLEAN ELSE {FALSE})
    /\ pc = "dispatch"
    /\ exc = "none"
    /\ result = "unset"
    /\ success = FALSE
    /\ server_stopped = FALSE
    /\ archive_name = FALSE
    /\ extracted_path = FALSE
    \* an earlier run that was killed, or whose cleanup failed, leaves its
    \* archive and its temp directory behind
    /\ archive_present \in BOOLEAN
    /\ extracted_present \in BOOLEAN
    /\ backup_file = "none"
    /\ sync_log = <<>>
    /\ sync_status = "not_begun"
    /\ attempts = 0
    /\ version_probe = "none"
    /\ stop_probe = "none"
    /\ signals = 0
    /\ trace = <<>>
    /\ failed_steps = {}
    /\ cmds = <<>>
    /\ cleanup_calls = 0
    /\ cleanup_starts = 0
    /\ last_cleanup = NoCleanup
    /\ exit_code = "none"

\* main(): the version-format check and the call of cmd_update;
\* commands.perform_update: the same check before UpdateManager.perform_update.
Dispatch ==
    /\ pc = "dispatch"
    /\ IF version_valid
         THEN /\ pc' = "preflight"
              /\ result' = result
              \* cmd_update sets self.archive_name on entry
              /\ archive_name' = (impl # "vs_mgr")
         ELSE /\ pc' = "dispatch_finally"
              /\ result' = "failure"
              /\ archive_name' = archive_name
    /\ UNCHANGED <<unitVars, cfgVars, service_active, exc, success, server_stopped,
                   extracted_path, fileVars, backup_file, syncVars, attempts,
                   version_probe, stop_probe, signals, trace, failed_steps, cmds, cleanupVars,
                   exit_code>>

\* A preflight that lets the update go on whatever the checks find.
Preflight_unchecked ==
    /\ pc = "preflight"
    /\ trace' = Append(trace, "preflight")
    /\ pc' = "stop"
    /\ UNCHANGED <<result, success, failed_steps>>
    /\ UNCHANGED <<unitVars, cfgVars, service_active, exc, server_stopped, archive_name,
                   extracted_path, fileVars, backup_file, syncVars, attempts,
                   version_probe, stop_probe, signals, cmds, cleanupVars, exit_code>>

\* _verify_service_and_url: the unit must exist and the download URL must
\* answer the HEAD request with 200, else the update fails here.
Preflight ==
    /\ pc = "preflight"
    /\ trace' = Append(trace, "preflight")
    /\ IF service_exists /\ url_accessible
         THEN pc' = "stop" /\ UNCHANGED <<result, success, failed_steps>>
         ELSE StepFails
    /\ UNCHANGED <<unitVars, cfgVars, service_active, exc, server_stopped, archive_name,
                   extracted_path, fileVars, backup_file, syncVars, attempts,
                   version_probe, stop_probe, signals, cmds, cleanupVars, exit_code>>

StopCheckRaises_on_active(probe) == probe \in {"error", "active"}

\* the post-stop status check of vs_mgr ends the stop step only when the
\* query itself raises
StopCheckRaises(probe) == probe = "error"

\* _stop_server.  Under --dry-run the command is only printed and counts as
\* having succeeded.
Stop ==
    /\ pc = "stop"
    /\ trace' = Append(trace, "stop")
    /\ cmds' = IF dry_run THEN cmds ELSE Append(cmds, "stop")
    /\ \E stop_ok \in BOOLEAN, still_active \in BOOLEAN,
          query_ok \in (IF impl = "vs_mgr" THEN BOOLEAN ELSE {TRUE}) :
         IF dry_run \/ stop_ok
           THEN /\ server_stopped' = TRUE
                /\ service_active' = IF dry_run THEN service_active
                                     ELSE service_active /\ still_active
                \* vs_mgr asks is_service_active after the command; a
                \* service still active is a warning, a query that cannot
                \* be made raises ServiceError
                /\ stop_probe' = IF impl # "vs_mgr" THEN "none"
                                 ELSE IF ~query_ok THEN "error"
                                 ELSE IF service_active' THEN "active"
                                 ELSE "inactive"
                /\ IF StopCheckRaises(stop_probe')
                     THEN StepFails
                     ELSE /\ pc' = "backup"
                          /\ UNCHANGED <<result, success, failed_steps>>
           ELSE /\ server_stopped' = server_stopped
                /\ service_active' = service_active
                /\ stop_probe' = stop_probe
                /\ StepFails
    /\ UNCHANGED <<unitVars, cfgVars, exc, archive_name, extracted_path, fileVars,
                   backup_file, syncVars, attempts, version_probe, signals,
                   cleanupVars, exit_code>>

\* _handle_backup with create_backup.  prep_ok: the pre-flight of
\* create_backup passes (data directory there, backup directory creatable);
\* backup_ok: the archive is written and the rotation goes through.  A dry
\* run returns after the pre-flight.  main.py has no pre-flight and returns
\* None on any failure.  src/backup.py raises BackupError from the pre-flight
\* whatever ignore_failure says, and src/updater.py catches nothing, so the
\* error leaves perform_update.  vs_mgr's _handle_backup catches every error
\* and goes on when ignore_backup_failure is set.
Backup ==
    /\ pc = "backup"
    /\ IF skip_backup
         THEN /\ pc' = "fetch"
              /\ UNCHANGED <<result, success, failed_steps, backup_file, trace>>
         ELSE /\ trace' = Append(trace, "backup")
              /\ \E prep_ok \in BOOLEAN, backup_ok \in BOOLEAN :
                   LET created == IF dry_run THEN impl = "main" \/ prep_ok
                                  ELSE prep_ok /\ backup_ok
                       escapes == impl = "flat" /\ ~prep_ok
                   IN IF created
                        THEN /\ backup_file' = "path"
                             /\ pc' = "fetch"
                             /\ UNCHANGED <<result, success, failed_steps>>
                        ELSE /\ backup_file' = "none"
                             /\ IF ignore_backup_failure /\ ~escapes
                                  THEN /\ pc' = "fetch"
                                       /\ UNCHANGED <<result, success,
                                                      failed_steps>>
                                  ELSE StepFails
    /\ UNCHANGED <<unitVars, cfgVars, service_active, exc, server_stopped, archive_name,
                   extracted_path, fileVars, syncVars, attempts, version_probe, stop_probe,
                   signals, cmds, cleanupVars, exit_code>>

\* _download_server_archive (vs_mgr: after _ensure_temp_dir, which empties
\* the temp directory and whose failure fails the update; under --dry-run
\* it leaves the directory as it is).  src/updater.py creates the temp
\* directory before it looks at dry_run: through self.filesystem when one
\* was given (with_filesystem), which knows no dry run, else through
\* run_mkdir, which does.
Fetch ==
    /\ pc = "fetch"
    /\ trace' = Append(trace, "fetch")
    /\ \E with_filesystem \in (IF impl = "flat" THEN BOOLEAN ELSE {FALSE}) :
         LET temp_dir == IF impl = "vs_mgr" THEN FALSE
                         ELSE IF impl = "flat"
                                THEN extracted_present \/ with_filesystem
                                     \/ ~dry_run
                         ELSE extracted_present
         IN IF dry_run
              THEN /\ pc' = "extract"
                   /\ archive_name' = TRUE
                   /\ extracted_present' =
                        IF impl = "flat" THEN temp_dir ELSE extracted_present
                   /\ UNCHANGED <<result, success, failed_steps,
                                  archive_present>>
              ELSE \E temp_ok \in BOOLEAN, download_ok \in BOOLEAN,
                      partial \in BOOLEAN :
                     IF impl = "vs_mgr" /\ ~temp_ok
                       THEN /\ archive_name' = archive_name
                            /\ UNCHANGED fileVars
                            /\ StepFails
                       ELSE /\ archive_name' = TRUE
                            /\ extracted_present' = temp_dir
                            /\ IF download_ok
                                 THEN /\ archive_present' = TRUE
                                      /\ pc' = "extract"
                                      /\ UNCHANGED <<result, success,
                                                     failed_steps>>
                                 ELSE /\ archive_present' = partial
                                      /\ StepFails
    /\ UNCHANGED <<unitVars, cfgVars, service_active, exc, server_stopped,
                   extracted_path, backup_file, syncVars, attempts,
                   version_probe, stop_probe, signals, cmds, cleanupVars, exit_code>>

\* _extract_server_archive; perform_update binds self._extracted_path only
\* when it returns
Extract ==
    /\ pc = "extract"
    /\ trace' = Append(trace, "extract")
    /\ IF dry_run
         THEN /\ pc' = "sync"
              /\ extracted_path' = (impl = "vs_mgr")
              /\ UNCHANGED <<result, success, failed_steps, extracted_present>>
         ELSE \E extract_ok \in BOOLEAN, partial \in BOOLEAN :
                IF extract_ok
                  THEN /\ extracted_present' = TRUE
                       /\ extracted_path' = (impl = "vs_mgr")
                       /\ pc' = "sync"
                       /\ UNCHANGED <<result, success, failed_steps>>
                  ELSE /\ extracted_present' = partial
                       /\ extracted_path' = extracted_path
                       /\ StepFails
    /\ UNCHANGED <<unitVars, cfgVars, service_active, exc, server_stopped, archive_name,
                   archive_present, backup_file, syncVars, attempts,
                   version_probe, stop_probe, signals, cmds, cleanupVars, exit_code>>

\* A choice of the strategy that takes the mirror tool whether it is there
\* or not.
UseMirror_always == TRUE

\* _update_server_files: rsync is taken if shutil.which finds it (vs_mgr:
\* and a process_runner was given), else the fallback.
UseMirror == rsync_available /\ (impl # "vs_mgr" \/ process_runner)

\* _update_server_files: the choice of the strategy, and the mirror run.
\* main.py returns what rsync returned; vs_mgr catches a failed rsync and
\* goes on to the fallback.  main.py asks the operator before the fallback.
Sync ==
    /\ pc = "sync"
    /\ trace' = Append(trace, "sync")
    /\ LET mirror == UseMirror
       IN \E tool_ok \in BOOLEAN, answer_yes \in BOOLEAN :
            IF mirror
              THEN /\ sync_log' = Append(sync_log, "mirror")
                   /\ IF dry_run \/ tool_ok
                        THEN /\ sync_status' = "completed"
                             /\ pc' = "start"
                             /\ UNCHANGED <<result, success, failed_steps>>
                        ELSE IF impl # "vs_mgr"
                               THEN sync_status' = "failed" /\ StepFails
                               ELSE /\ sync_status' = "in_progress"
                                    /\ pc' = "fallback"
                                    /\ UNCHANGED <<result, success, failed_steps>>
              ELSE IF dry_run
                     THEN /\ sync_log' = Append(sync_log, "fallback")
                          /\ sync_status' = "completed"
                          /\ pc' = "start"
                          /\ UNCHANGED <<result, success, failed_steps>>
                     ELSE IF impl # "vs_mgr" /\ ~answer_yes
                            THEN /\ sync_log' = sync_log
                                 /\ sync_status' = "failed"
                                 /\ StepFails
                            ELSE /\ sync_log' = sync_log
                                 /\ sync_status' = "in_progress"
                                 /\ pc' = "fallback"
                                 /\ UNCHANGED <<result, success, failed_steps>>
    /\ UNCHANGED <<unitVars, cfgVars, service_active, exc, server_stopped, archive_name,
                   extracted_path, fileVars, backup_file, attempts,
                   version_probe, stop_probe, signals, cmds, cleanupVars, exit_code>>

\* The first phase of _update_with_fallback: main.py moves the current files
\* to the side directory (_move_files_to_backup), vs_mgr copies the new and
\* the newer files over the target.
Fallback ==
    /\ pc = "fallback"
    /\ sync_log' = Append(sync_log, "fallback")
    /\ \E phase_ok \in BOOLEAN :
         IF phase_ok
           THEN /\ pc' = "sync2"
                /\ sync_status' = sync_status
                /\ UNCHANGED <<result, success, failed_steps>>
           ELSE sync_status' = "failed" /\ StepFails
    /\ UNCHANGED <<unitVars, cfgVars, service_active, exc, server_stopped, archive_name,
                   extracted_path, fileVars, backup_file, attempts,
                   version_probe, stop_probe, signals, trace, cmds, cleanupVars,
                   exit_code>>

\* The second phase: main.py copies the new files in and restores on a
\* failure (_copy_new_files), vs_mgr deletes what the source does not hold.
Sync2 ==
    /\ pc = "sync2"
    /\ \E phase_ok \in BOOLEAN :
         IF phase_ok
           THEN /\ pc' = "start"
                /\ sync_status' = "completed"
                /\ UNCHANGED <<result, success, failed_steps>>
           ELSE sync_status' = "failed" /\ StepFails
    /\ UNCHANGED <<unitVars, cfgVars, service_active, exc, server_stopped, archive_name,
                   extracted_path, fileVars, backup_file, sync_log, attempts,
                   version_probe, stop_probe, signals, trace, cmds, cleanupVars,
                   exit_code>>

\* _start_and_verify_server, the start command.  main.py clears
\* server_stopped as soon as the command has succeeded.
Start ==
    /\ pc = "start"
    /\ trace' = Append(trace, "start")
    /\ cmds' = IF dry_run THEN cmds ELSE Append(cmds, "start")
    /\ attempts' = 0
    /\ \E start_ok \in BOOLEAN, comes_up \in BOOLEAN :
         IF dry_run \/ start_ok
           THEN /\ pc' = "poll"
                /\ server_stopped' =
                     IF impl # "vs_mgr" THEN FALSE ELSE server_stopped
                /\ service_active' =
                     IF dry_run THEN service_active ELSE comes_up
                /\ UNCHANGED <<result, success, failed_steps>>
           ELSE /\ UNCHANGED <<server_stopped, service_active>>
                /\ StepFails
    /\ UNCHANGED <<unitVars, cfgVars, exc, archive_name, extracted_path, fileVars,
                   backup_file, syncVars, version_probe, stop_probe, signals, cleanupVars,
                   exit_code>>

\* A poll that goes on asking until its budget is used up, whatever the
\* queries report.
SeenActive_at_end(active, n) == active /\ n = max_attempts

\* `if self.is_service_active(service_name): return True` in the loop of
\* check_server_status / wait_for_service_active, n the number of the query
SeenActive(active, n) == active

\* One status query of check_server_status / wait_for_service_active: the
\* loop returns True on the first query that reports active and False when
\* the last query of the budget did not.  In vs_mgr a query whose command
\* cannot be run raises ServiceError out of the poll (query_ok).
Poll ==
    /\ pc = "poll"
    /\ attempts < max_attempts
    /\ attempts' = attempts + 1
    /\ \E comes_up \in BOOLEAN,
          query_ok \in (IF impl = "vs_mgr" THEN BOOLEAN ELSE {TRUE}) :
         /\ service_active' = (service_active \/ (comes_up /\ ~dry_run))
         /\ IF ~query_ok
              THEN server_stopped' = server_stopped /\ StepFails
            ELSE IF SeenActive(service_active', attempts')
              THEN /\ pc' = "verify"
                   /\ server_stopped' = FALSE
                   /\ UNCHANGED <<result, success, failed_steps>>
              ELSE IF attempts' < max_attempts
                     THEN UNCHANGED <<pc, server_stopped, result, success,
                                      failed_steps>>
                     ELSE /\ server_stopped' = server_stopped
                          /\ IF impl # "vs_mgr"
                               THEN /\ pc' = "verify"
                                    /\ UNCHANGED <<result, success,
                                                   failed_steps>>
                               ELSE StepFails
    /\ UNCHANGED <<unitVars, cfgVars, exc, archive_name, extracted_path, fileVars,
                   backup_file, syncVars, version_probe, stop_probe, signals, trace, cmds,
                   cleanupVars, exit_code>>

\* The post-start version probe.  main.py only warns; vs_mgr raises
\* VersioningError when the version differs or cannot be determined.
Verify ==
    /\ pc = "verify"
    /\ trace' = Append(trace, "verify")
    /\ \E probe \in {"match", "mismatch", "unknown"} :
         /\ version_probe' = probe
         /\ IF impl # "vs_mgr"
              THEN /\ pc' = "dispatch_finally"
                   /\ result' = "success"
                   /\ success' = TRUE
                   /\ failed_steps' = failed_steps
              ELSE IF probe = "match"
                     THEN /\ pc' = "update_finally"
                          /\ success' = TRUE
                          /\ result' = result
                          /\ failed_steps' = failed_steps
                     ELSE StepFails
    /\ UNCHANGED <<unitVars, cfgVars, service_active, exc, server_stopped, archive_name,
                   extracted_path, fileVars, backup_file, syncVars, attempts,
                   stop_probe, signals, cmds, cleanupVars, exit_code>>

\* The finally block of UpdateManager.perform_update (vs_mgr), then its
\* return to process_command unless SystemExit is unwinding.
UpdateFinally ==
    /\ pc = "update_finally"
    /\ \E rmtree_ok \in BOOLEAN, remove_ok \in BOOLEAN, comes_up \in BOOLEAN :
         RunCleanup("update", Cleanup(rmtree_ok, remove_ok, comes_up))
    /\ pc' = "dispatch_finally"
    /\ result' = IF exc = "exit" THEN result
                 ELSE IF success THEN "success" ELSE "failure"
    /\ UNCHANGED <<unitVars, cfgVars, exc, success, server_stopped, archive_name,
                   extracted_path, backup_file, syncVars, attempts,
                   version_probe, stop_probe, signals, failed_steps, exit_code>>

\* What main() hands to sys.exit.  main.py: the int cmd_update returned.
\* vs_mgr: main() returns what process_command returns, and that is the
\* (success, code) tuple of commands.perform_update.
ReturnValue ==
    IF impl = "vs_mgr"
      THEN [kind |-> "tuple", success |-> (result = "success"),
            code |-> IF result = "success" THEN 0 ELSE 1]
      ELSE [kind |-> "int", success |-> (result = "success"),
            code |-> IF result = "success" THEN 0 ELSE 1]

\* sys.exit(arg): an int is the exit status; any other object is printed
\* to stderr and the exit status is 1.
sys_exit(arg) ==
    IF arg.kind = "int" THEN (IF arg.code = 0 THEN "0" ELSE "1") ELSE "1"

\* A finally block of main() / process_command() that exits without calling
\* cleanup.
DispatchFinally_no_cleanup ==
    /\ pc = "dispatch_finally"
    /\ pc' = "exited"
    /\ exit_code' = IF exc = "exit" THEN "1" ELSE sys_exit(ReturnValue)
    /\ UNCHANGED <<unitVars, cfgVars, service_active, exc, result, success,
                   server_stopped, archive_name, extracted_path, fileVars,
                   backup_file, syncVars, attempts, version_probe, stop_probe, signals,
                   trace, failed_steps, cmds, cleanupVars>>

\* The finally block of main() / process_command(), and the process exit.
\* main() passes `result` to cleanup: when SystemExit arrived before result
\* was bound, evaluating the argument raises and cleanup is not called.
DispatchFinally ==
    /\ pc = "dispatch_finally"
    /\ pc' = "exited"
    /\ IF impl # "vs_mgr" /\ result = "unset"
         THEN /\ exit_code' = "1"
              /\ UNCHANGED <<service_active, fileVars, cmds, cleanupVars,
                             trace>>
         ELSE \E rmtree_ok \in BOOLEAN, remove_ok \in BOOLEAN,
                 comes_up \in BOOLEAN :
                LET o == Cleanup(rmtree_ok, remove_ok, comes_up)
                IN /\ RunCleanup("dispatch", o)
                   /\ exit_code' = IF o.raised \/ exc = "exit" THEN "1"
                                   ELSE sys_exit(ReturnValue)
    /\ UNCHANGED <<unitVars, cfgVars, exc, result, success, server_stopped,
                   archive_name, extracted_path, backup_file, syncVars,
                   attempts, version_probe, stop_probe, signals, failed_steps>>

\* signal_handler (SIGINT/SIGTERM): Cleanup, then sys.exit(1).  SystemExit
\* is raised where the main flow stands and unwinds through the finally
\* blocks; `except Exception` does not catch it.  in_finally: the signal
\* arrived inside the finally block, before its cleanup call.  An error
\* raised by cleanup() itself surfaces in the main flow instead, as an
\* ordinary exception of the step that was running: the step fails and
\* main() binds result = 1.
Signal ==
    /\ pc # "exited"
    /\ signals < MaxSignals
    /\ signals' = signals + 1
    /\ \E rmtree_ok \in BOOLEAN, remove_ok \in BOOLEAN, comes_up \in BOOLEAN,
          in_finally \in BOOLEAN :
         LET o == Cleanup(rmtree_ok, remove_ok, comes_up)
         IN /\ RunCleanup("signal", o)
            /\ IF o.raised
                 THEN /\ pc' = "dispatch_finally"
                      /\ exc' = "none"
                      /\ result' = "failure"
                      /\ exit_code' = exit_code
                      /\ sync_status' = IF sync_status = "in_progress"
                                          THEN "failed" ELSE sync_status
                 ELSE /\ exc' = "exit"
                      /\ result' = result
                      /\ sync_status' = sync_status
                      /\ IF pc \in BodyPcs /\ impl = "vs_mgr"
                           THEN pc' = "update_finally" /\ exit_code' = exit_code
                           ELSE IF pc = "update_finally" /\ ~in_finally
                             THEN pc' = pc /\ exit_code' = exit_code
                           ELSE IF pc = "dispatch_finally" /\ in_finally
                             THEN pc' = "exited" /\ exit_code' = "1"
                           ELSE pc' = "dispatch_finally"
                                /\ exit_code' = exit_code
    /\ UNCHANGED <<unitVars, cfgVars, success, server_stopped, archive_name,
                   extracted_path, backup_file, sync_log, attempts,
                   version_probe, stop_probe, failed_steps>>

Next ==
    \/ Dispatch
    \/ Preflight
    \/ Stop
    \/ Backup
    \/ Fetch
    \/ Extract
    \/ Sync
    \/ Fallback
    \/ Sync2
    \/ Start
    \/ Poll
    \/ Verify
    \/ UpdateFinally
    \/ DispatchFinally
    \/ Signal

Spec == Init /\ [][Next]_vars

\* The update run with the activation poll going on: between two status
\* queries the loop only sleeps for wait_time seconds, so a poll that can
\* make its next query does make it.
SpecLive == Init /\ [][Next]_vars /\ WF_vars(Poll)

(***************************************************************************)
(* SpecSync: the file sync on directory trees.                             *)
(***************************************************************************)
SyncImpls == {"main", "flat", "vs_mgr"}

\* The server directories and the extracted releases the sync is run on.
TargetEntries(n) ==
    CASE n = "serverconfig.json" -> {NoEntry, File("old", 1)}
      [] n = "Mods" -> {NoEntry, Dir(OneChild("a", File("old", 1)))}
      [] n = "modconfig" -> {NoEntry, Dir(NoChildren)}
      [] n = "server.bin" -> {NoEntry, File("old", 1), File("old", 3)}
      [] OTHER -> {NoEntry, Dir(OneChild("b", File("old", 1)))}

SourceEntries(n) ==
    CASE n = "serverconfig.json" -> {NoEntry, File("new", 2)}
      [] n = "Mods" -> {NoEntry, Dir(OneChild("a", File("new", 2)))}
      [] n = "modconfig" -> {NoEntry}
      [] n = "server.bin" -> {NoEntry, File("new", 2)}
      [] OTHER -> {NoEntry, Dir(OneChild("a", File("new", 2)))}

\* The update run stands at step p, nothing having failed before it.
RunStandsAt(p) ==
    /\ skip_backup = FALSE
    /\ version_valid = TRUE
    /\ service_exists = TRUE
    /\ url_accessible = TRUE
    /\ service_active = FALSE
    /\ pc = p
    /\ exc = "none"
    /\ result = "unset"
    /\ success = FALSE
    /\ server_stopped = TRUE
    /\ archive_name = (impl # "vs_mgr" \/ p # "backup")
    /\ extracted_path = (impl = "vs_mgr" /\ p = "sync")
    /\ archive_present = (~dry_run /\ p # "backup")
    /\ extracted_present = (~dry_run /\ p = "sync")
    /\ backup_file = "none"
    /\ attempts = 0
    /\ version_probe = "none"
    /\ stop_probe = "none"
    /\ signals = 0
    /\ trace = <<>>
    /\ failed_steps = {}
    /\ cmds = <<>>
    /\ cleanup_calls = 0
    /\ cleanup_starts = 0
    /\ last_cleanup = NoCleanup
    /\ exit_code = "none"

InitSync ==
    /\ impl \in SyncImpls
    /\ dry_run \in BOOLEAN
    /\ rsync_available \in BOOLEAN
    /\ process_runner \in (IF impl = "vs_mgr" THEN BOOLEAN ELSE {FALSE})
    /\ RunStandsAt("sync")
    /\ ignore_backup_failure = FALSE
    /\ sync_log = <<>>
    /\ sync_status = "not_begun"
    /\ TarIdle
    /\ BkIdle
    /\ CmpIdle
    /\ fs_target \in [TopNames -> UNION {TargetEntries(n) : n \in TopNames}]
    /\ \A n \in TopNames : fs_target[n] \in TargetEntries(n)
    /\ fs_source \in [TopNames -> UNION {SourceEntries(n) : n \in TopNames}]
    /\ \A n \in TopNames : fs_source[n] \in SourceEntries(n)
    /\ fs_side = NoSide
    /\ fs_before = fs_target
    /\ sync_pc = "choose"
    /\ sync_events = {}

\* what the sync leaves alone whatever it does
syncFrame == <<runOnlyVars, impl, dry_run, rsync_available, process_runner,
               fs_source, fs_before, tarVars, bkVars, cmpVars>>

\* _update_server_files: the choice of the strategy.
UpdateServerFiles ==
    /\ sync_pc = "choose"
    /\ sync_status' = "in_progress"
    /\ sync_pc' = IF rsync_available /\ (impl # "vs_mgr" \/ process_runner)
                    THEN "rsync" ELSE "fallback"
    /\ UNCHANGED <<syncFrame, fs_target, fs_side, sync_log, sync_events>>

\* What a completed `rsync -a --delete <excludes> source/ target/` leaves:
\* main.py and src/updater.py exclude the preserved paths, vs_mgr passes no
\* exclude.
rsync_names == IF impl = "vs_mgr" THEN TopNames ELSE TopNames \ preserve_paths

\* _update_with_rsync.  A failing rsync leaves an unspecified part of the
\* mirror done; vs_mgr then goes on to the fallback.
UpdateWithRsync ==
    /\ sync_pc = "rsync"
    /\ sync_log' = Append(sync_log, "mirror")
    /\ IF dry_run
         THEN /\ sync_status' = "completed"
              /\ sync_pc' = "done"
              /\ UNCHANGED <<fs_target, sync_events>>
         ELSE \E tool_ok \in BOOLEAN, part \in SUBSET rsync_names :
                IF tool_ok
                  THEN /\ fs_target' = Overlay(fs_target, fs_source, rsync_names)
                       /\ sync_status' = "completed"
                       /\ sync_pc' = "done"
                       /\ sync_events' = sync_events
                  ELSE /\ fs_target' = Overlay(fs_target, fs_source, part)
                       /\ sync_events' = sync_events \cup {"mirror_failed"}
                       /\ IF impl = "vs_mgr"
                            THEN sync_status' = sync_status
                                 /\ sync_pc' = "fallback"
                            ELSE sync_status' = "failed" /\ sync_pc' = "done"
    /\ UNCHANGED <<syncFrame, fs_side>>

\* _update_with_fallback up to its first phase: main.py and src/updater.py
\* ask the operator (not in a dry run); vs_mgr returns at once in a dry run.
UpdateWithFallback ==
    /\ sync_pc = "fallback"
    /\ sync_log' = Append(sync_log, "fallback")
    /\ \E answer_yes \in BOOLEAN :
         IF impl = "vs_mgr"
           THEN IF dry_run
                  THEN sync_status' = "completed" /\ sync_pc' = "done"
                  ELSE sync_status' = sync_status /\ sync_pc' = "fb_copy"
           ELSE IF ~dry_run /\ ~answer_yes
                  THEN sync_status' = "failed" /\ sync_pc' = "done"
                  ELSE sync_status' = sync_status /\ sync_pc' = "move"
    /\ UNCHANGED <<syncFrame, fs_target, fs_side, sync_events>>

\* _move_files_to_backup (Evacuate).  main.py: shutil.move raises, the side
\* directory is removed with what was moved into it, False is returned.
\* src/updater.py: system.move reports the failure as False, which is not
\* looked at; the loop goes on and True is returned.  There the except
\* clause is reached by an error of the loop itself (list_dir, or
\* os.path.samefile on an entry that cannot be stat'ed), and it removes the
\* side directory in the same way.
MoveFilesToBackup ==
    /\ sync_pc = "move"
    /\ IF dry_run
         THEN /\ sync_pc' = "copy"
              /\ UNCHANGED <<fs_target, fs_side, sync_status, sync_events>>
         ELSE LET movable == Items(fs_target) \ preserve_paths
              IN \E stuck \in SUBSET movable, before \in SUBSET movable,
                    rm_ok \in BOOLEAN,
                    raises \in (IF impl = "flat" THEN BOOLEAN ELSE {FALSE}) :
                   \* the loop stops at the item that raises: `before` are
                   \* the items os.listdir gave before it
                   LET aborts == IF impl = "main" THEN stuck # {} ELSE raises
                       tried == IF aborts THEN before ELSE movable
                       moved == tried \ stuck
                       move_failed == IF impl = "main" THEN stuck # {}
                                      ELSE stuck \cap tried # {}
                   IN /\ fs_target' = Without(fs_target, moved)
                      /\ sync_events' = sync_events
                           \cup (IF move_failed THEN {"move_failed"} ELSE {})
                           \cup (IF aborts THEN {"evacuate_aborted"} ELSE {})
                      /\ IF aborts
                           THEN /\ fs_side' =
                                     IF rm_ok THEN NoSide
                                     ELSE [exists |-> TRUE,
                                           entries |-> Only(fs_target, moved)]
                                /\ sync_status' = "failed"
                                /\ sync_pc' = "done"
                           ELSE /\ fs_side' =
                                     [exists |-> TRUE,
                                      entries |-> Only(fs_target, moved)]
                                /\ sync_status' = sync_status
                                /\ sync_pc' = "copy"
    /\ UNCHANGED <<syncFrame, sync_log>>

\* What the Install loop of _copy_new_files does to the target for the
\* source items `names`: a directory replaces the target's (rmtree, then
\* copytree), a file is copied over it.
Installed(tree, names) == Overlay(tree, fs_source, names)

\* An item whose copy failed: the target's entry is as it was, or, for a
\* directory whose rmtree had been done before copytree failed, gone.
Broken(tree, failed, gone) ==
    [n \in TopNames |->
        IF n \in failed /\ n \in gone /\ fs_source[n].kind = "dir"
          THEN NoEntry ELSE tree[n]]

\* _copy_new_files (Install, and the restore from the side directory).
\* main.py: the first failing copy raises; the except clause copies every
\* entry of the side directory back and returns False; a restore that
\* raises is reported as critical.  The final rmtree of the side directory
\* is inside the same try.  src/updater.py: system.copy, system.copytree
\* and system.rmtree report a failure as False, which is not looked at, so
\* every item is tried and True is returned; the except clause is reached
\* only when list_dir(temp_dir) raises, before anything is copied, and the
\* restore then reports "Restored" unless listing the side directory
\* raises (seen), whatever its copies did.
CopyNewFiles ==
    /\ sync_pc = "copy"
    /\ sync_pc' = "done"
    /\ IF dry_run
         THEN /\ sync_status' = "completed"
              /\ UNCHANGED <<fs_target, fs_side, sync_events>>
         ELSE LET items == Items(fs_source)
              IN \E failed \in SUBSET items, rm_ok \in BOOLEAN,
                    raises \in (IF impl = "flat" THEN BOOLEAN ELSE {FALSE}) :
                 LET excepts == IF impl = "main" THEN failed # {} \/ ~rm_ok
                                                 ELSE raises
                 IN
                 \E before \in (IF impl = "main" /\ failed # {}
                                  THEN SUBSET (items \ failed) ELSE {{}}),
                    gone \in SUBSET {n \in failed : fs_source[n].kind = "dir"},
                    restore_ok \in (IF excepts THEN BOOLEAN ELSE {TRUE}) :
                 \E put_back \in (IF restore_ok THEN {{}}
                                   ELSE SUBSET Items(fs_side.entries)),
                    seen \in (IF impl = "flat" /\ ~restore_ok
                                THEN BOOLEAN ELSE {TRUE}) :
                   \* main.py stops at the first item whose copy fails:
                   \* `before` are the items os.listdir gave before it
                   LET copied == IF raises THEN {}
                                 ELSE IF impl = "main" /\ failed # {}
                                   THEN before ELSE items \ failed
                       after_copy ==
                           IF raises THEN fs_target
                           ELSE Broken(Installed(fs_target, copied),
                                       failed \ copied, gone)
                       restored == IF restore_ok THEN Items(fs_side.entries)
                                   ELSE IF impl = "flat" /\ seen THEN {}
                                   ELSE put_back
                   IN IF excepts
                        THEN /\ fs_target' = Overlay(after_copy,
                                                     fs_side.entries, restored)
                             /\ fs_side' = fs_side
                             /\ sync_status' = "failed"
                             /\ sync_events' = sync_events
                                  \cup (IF raises THEN {"listing_failed"}
                                        ELSE IF failed # {} THEN {"copy_failed"}
                                        ELSE {"rmtree_failed"})
                                  \cup (IF restore_ok \/ ~seen
                                          THEN {"restored"}
                                          ELSE {"restore_failed"})
                        ELSE /\ fs_target' = after_copy
                             /\ fs_side' = IF rm_ok THEN NoSide ELSE fs_side
                             /\ sync_status' = "completed"
                             /\ sync_events' = sync_events
                                  \cup (IF failed # {} THEN {"copy_failed"}
                                                       ELSE {})
                                  \cup (IF rm_ok THEN {} ELSE {"rmtree_failed"})
    /\ UNCHANGED <<syncFrame, sync_log>>

\* vs_mgr, phase 1 of _update_with_fallback on one entry: a directory is
\* created if missing, a file is copied if the target has none or the
\* source's is newer (src_mtime > dst_mtime).
CopyIfNewer(src, dst) ==
    IF src = NoEntry THEN dst
    ELSE IF dst = NoEntry THEN src
    ELSE IF src.mtime > dst.mtime THEN src ELSE dst

MergeEntry(src, dst) ==
    IF src.kind = "none" THEN dst
    ELSE IF src.kind = "file" THEN CopyIfNewer(src, dst)
    ELSE Dir([c \in ChildNames |->
                CopyIfNewer(src.children[c],
                            IF dst.kind = "dir" THEN dst.children[c]
                                                ELSE NoEntry)])

\* vs_mgr, phase 2 on one entry: a target file the source does not hold is
\* removed; a directory the source does not hold is removed if it was
\* empty, else its files are removed and the directory stays.
PruneEntry(src, dst) ==
    IF dst.kind = "none" THEN dst
    ELSE IF dst.kind = "file"
           THEN IF src.kind = "none" THEN NoEntry ELSE dst
    ELSE IF src.kind = "none"
           THEN IF dst.children = NoChildren THEN NoEntry ELSE Dir(NoChildren)
    ELSE Dir([c \in ChildNames |->
                IF src.children[c] = NoEntry THEN NoEntry
                                             ELSE dst.children[c]])

\* vs_mgr: the copy/update walk.  A failing copy raises: UpdateError, with
\* the entries walked so far updated.
FallbackCopy ==
    /\ sync_pc = "fb_copy"
    /\ \E copy_ok \in BOOLEAN, before \in SUBSET Items(fs_source) :
         LET names == IF copy_ok THEN TopNames ELSE before
         IN /\ fs_target' = [n \in TopNames |->
                               IF n \in names
                                 THEN MergeEntry(fs_source[n], fs_target[n])
                                 ELSE fs_target[n]]
            /\ IF copy_ok
                 THEN /\ sync_pc' = "fb_delete"
                      /\ UNCHANGED <<sync_status, sync_events>>
                 ELSE /\ sync_pc' = "done"
                      /\ sync_status' = "failed"
                      /\ sync_events' = sync_events \cup {"copy_failed"}
    /\ UNCHANGED <<syncFrame, fs_side, sync_log>>

\* vs_mgr: the walk that deletes what the source does not hold.  A failing
\* removal is logged as a warning and the walk goes on.
FallbackDelete ==
    /\ sync_pc = "fb_delete"
    /\ sync_pc' = "done"
    /\ sync_status' = "completed"
    /\ \E kept \in SUBSET {n \in Items(fs_target) : fs_source[n] = NoEntry} :
         /\ fs_target' = [n \in TopNames |->
                            IF n \in kept THEN fs_target[n]
                            ELSE PruneEntry(fs_source[n], fs_target[n])]
         /\ sync_events' = sync_events
                             \cup (IF kept # {} THEN {"remove_failed"} ELSE {})
    /\ UNCHANGED <<syncFrame, fs_side, sync_log>>

NextSync ==
    \/ UpdateServerFiles
    \/ UpdateWithRsync
    \/ UpdateWithFallback
    \/ MoveFilesToBackup
    \/ CopyNewFiles
    \/ FallbackCopy
    \/ FallbackDelete

SpecSync == InitSync /\ [][NextSync]_vars

(***************************************************************************)
(* SpecExtract: the extraction of the release archive.  A path is a        *)
(* sequence of characters, as the prefix test of is_within_directory works *)
(* on characters.                                                          *)
(***************************************************************************)
\* the directory extracted into, and the member names an archive may hold
DestPath == <<"/", "t", "/", "x">>
MemberNames ==
    { <<"f">>,
      <<"d", "/", "f">>,
      <<"d", "/", ".", ".", "/", "f">>,
      <<".", ".", "/", "y">>,
      <<".", ".", "/", "x", "e", "/", "f">>,
      <<"/", "e">> }

\* the components of a path, split at the separators
RECURSIVE SplitPath(_)
SplitPath(p) ==
    IF p = <<>> THEN << <<>> >>
    ELSE LET rest == SplitPath(Tail(p))
         IN IF Head(p) = "/"
              THEN << <<>> >> \o rest
              ELSE << <<Head(p)>> \o Head(rest) >> \o Tail(rest)

\* os.path.normpath on the components of an absolute path
RECURSIVE Resolve(_, _)
Resolve(comps, acc) ==
    IF comps = <<>> THEN acc
    ELSE LET c == Head(comps)
         IN Resolve(Tail(comps),
                    IF c = <<>> \/ c = <<".">> THEN acc
                    ELSE IF c = <<".", ".">>
                           THEN IF acc = <<>> THEN acc
                                ELSE SubSeq(acc, 1, Len(acc) - 1)
                    ELSE Append(acc, c))

RECURSIVE JoinComps(_)
JoinComps(comps) ==
    IF comps = <<>> THEN <<>>
    ELSE <<"/">> \o Head(comps) \o JoinComps(Tail(comps))

\* os.path.abspath of an absolute path
abspath(p) ==
    LET r == Resolve(SplitPath(p), <<>>)
    IN IF r = <<>> THEN <<"/">> ELSE JoinComps(r)

\* os.path.join(a, b)
path_join(a, b) ==
    IF b # <<>> /\ Head(b) = "/" THEN b
    ELSE IF a[Len(a)] = "/" THEN a \o b
    ELSE a \o <<"/">> \o b

\* os.path.commonprefix([a, b]): the longest common prefix, by characters
RECURSIVE commonprefix(_, _)
commonprefix(a, b) ==
    IF a = <<>> \/ b = <<>> THEN <<>>
    ELSE IF Head(a) # Head(b) THEN <<>>
    ELSE <<Head(a)>> \o commonprefix(Tail(a), Tail(b))

is_within_directory(directory, target) ==
    commonprefix(abspath(directory), abspath(target)) = abspath(directory)

\* The path p lies in the directory or below it.
PathInside(directory, p) ==
    LET d == Resolve(SplitPath(directory), <<>>)
        t == Resolve(SplitPath(p), <<>>)
    IN Len(t) >= Len(d) /\ SubSeq(t, 1, Len(d)) = d

\* tarfile's "data" filter strips leading slashes from a member name
RECURSIVE StripSlashes(_)
StripSlashes(name) ==
    IF name # <<>> /\ Head(name) = "/" THEN StripSlashes(Tail(name)) ELSE name

InitExtract ==
    /\ impl \in SyncImpls
    /\ dry_run \in BOOLEAN
    /\ rsync_available = FALSE
    /\ process_runner = FALSE
    /\ RunStandsAt("extract")
    /\ ignore_backup_failure = FALSE
    /\ sync_log = <<>>
    /\ sync_status = "not_begun"
    /\ FsIdle
    /\ BkIdle
    /\ CmpIdle
    /\ tar_dest = DestPath
    /\ tar_members \in SUBSET MemberNames
    \* the default filter of TarFile.extractall depends on the Python
    \* version the program runs under
    /\ tar_filter \in {"fully_trusted", "data"}
    /\ tar_pc = "start"
    /\ tar_result = "none"
    /\ tar_written = {}

\* what the extraction leaves alone whatever it does
tarFrame == <<runVars, fsVars, bkVars, cmpVars, tar_dest, tar_members,
              tar_filter>>

\* _extract_server_archive up to the extraction proper.  main.py calls
\* tar.extractall at once; src/updater.py and the archiver check first.
ExtractServerArchive ==
    /\ tar_pc = "start"
    /\ IF dry_run
         THEN tar_pc' = "done" /\ tar_result' = "ok"
         ELSE /\ tar_pc' = IF impl = "main" THEN "extractall"
                                            ELSE "safe_extract"
              /\ tar_result' = tar_result
    /\ UNCHANGED <<tarFrame, tar_written>>

\* safe_extract: the loop over tar.getmembers().
SafeExtract ==
    /\ tar_pc = "safe_extract"
    /\ IF \E m \in tar_members :
            ~is_within_directory(tar_dest, path_join(tar_dest, m))
         THEN tar_pc' = "done" /\ tar_result' = "rejected"
         ELSE tar_pc' = "extractall" /\ tar_result' = tar_result
    /\ UNCHANGED <<tarFrame, tar_written>>

\* tar.extractall(path).  Without a filter every member is written where its
\* joined name says.  The "data" filter strips leading slashes and raises at
\* the first member that would land outside, after the members before it
\* have been written.
TarExtractAll ==
    /\ tar_pc = "extractall"
    /\ tar_pc' = "done"
    /\ IF tar_filter = "fully_trusted"
         THEN /\ tar_written' =
                   {abspath(path_join(tar_dest, m)) : m \in tar_members}
              /\ tar_result' = "ok"
         ELSE LET landing(m) == abspath(path_join(tar_dest, StripSlashes(m)))
                  fine == {m \in tar_members :
                             PathInside(tar_dest, landing(m))}
              IN IF fine = tar_members
                   THEN /\ tar_written' = {landing(m) : m \in tar_members}
                        /\ tar_result' = "ok"
                   ELSE \E before \in SUBSET fine :
                          /\ tar_written' = {landing(m) : m \in before}
                          /\ tar_result' = "rejected"
    /\ UNCHANGED tarFrame

NextExtract ==
    \/ ExtractServerArchive
    \/ SafeExtract
    \/ TarExtractAll

SpecExtract == InitExtract /\ [][NextExtract]_vars

(***************************************************************************)
(* SpecRotate: create_backup and _rotate_backups on the backup directory.  *)
(***************************************************************************)
RotateImpls == {"main", "flat", "vs_manager"}

\* File names of the backup directory: prefix, middle part, extension.
BackupFile(mid, ext) == [pre |-> "vs_data_backup_", mid |-> mid, ext |-> ext]
OldBackups == {BackupFile("1", ".tar.zst"), BackupFile("2", ".tar.zst"),
               BackupFile("3", ".tar.zst")}
NewBackup == BackupFile("4", ".tar.zst")
OtherFiles == {BackupFile("9", ".tar.gz"),
               [pre |-> "world_", mid |-> "8", ext |-> ".tar.zst"]}
DirNames == OldBackups \cup {NewBackup} \cup OtherFiles

\* A test of the name that looks at the prefix alone.
MatchesPattern_prefix_only(f) == f.pre = "vs_data_backup_"

\* f.startswith("vs_data_backup_") and f.endswith(".tar.zst")
MatchesPattern(f) == f.pre = "vs_data_backup_" /\ f.ext = ".tar.zst"

\* the order of the paths as strings
PathRank(f) ==
    CASE f.mid = "1" -> 1 [] f.mid = "2" -> 2 [] f.mid = "3" -> 3
      [] f.mid = "4" -> 4 [] OTHER -> 5

Present(dir) == {f \in DirNames : dir[f] > 0}
Matching(dir) == {f \in Present(dir) : MatchesPattern(f)}
Range(seq) == {seq[i] : i \in 1..Len(seq)}

\* backups.sort(reverse=True): newest first; among equal times the larger
\* tie rank first.
RECURSIVE SortedBackups(_, _, _)
SortedBackups(files, mt, tie) ==
    IF files = {} THEN <<>>
    ELSE LET first == CHOOSE f \in files :
                        \A g \in files \ {f} :
                           \/ mt[f] > mt[g]
                           \/ (mt[f] = mt[g] /\ tie[f] > tie[g])
         IN <<first>> \o SortedBackups(files \ {first}, mt, tie)

\* A slice that keeps one backup more than the limit.
ToDelete_one_more(sorted, k) == SubSeq(sorted, k + 2, Len(sorted))

\* backups[max_backups:]
ToDelete(sorted, k) == SubSeq(sorted, k + 1, Len(sorted))

\* the elements of seq before the first one that is in bad
BeforeFirst(seq, bad) ==
    {seq[j] : j \in {i \in 1..Len(seq) : \A k \in 1..i : seq[k] \notin bad}}

\* The tie ranks a sort may work with.  main.py sorts (mtime, path) pairs.
\* The others sort on mtime alone and the sort is stable, so the order of
\* os.listdir decides among equal times.
TieRanks ==
    IF impl = "main" THEN {[f \in DirNames |-> PathRank(f)]}
    ELSE {[f \in DirNames |-> PathRank(f)],
          [f \in DirNames |-> 10 - PathRank(f)]}

\* Paths: the directory they lie in ("" for a bare file name) and the name.
PathOf(dir, f) == [dir |-> dir, file |-> f]

\* os.path.join(backup_dir, f"vs_data_backup_{timestamp}.tar.zst")
IntendedPath == PathOf("backup_dir", NewBackup)

\* the string main.py returns from a dry run
ExamplePath ==
    PathOf("", [pre |-> "example_backup_path", mid |-> "", ext |-> ".tar.zst"])

\* backup_dir is not there / is there with the given owner
NoDir == [exists |-> FALSE, owner |-> "none"]
DirOwnedBy(o) == [exists |-> TRUE, owner |-> o]

\* The IFileSystem handed to src/backup.py reports a failure either as
\* FileSystemError or, like OsFileSystem, as the bare OSError.
Wraps == IF impl = "flat" THEN BOOLEAN ELSE {TRUE}

InitRotate ==
    /\ impl \in RotateImpls
    /\ dry_run \in BOOLEAN
    /\ rsync_available = FALSE
    /\ process_runner = FALSE
    /\ RunStandsAt("backup")
    /\ ignore_backup_failure \in BOOLEAN
    /\ sync_log = <<>>
    /\ sync_status = "not_begun"
    /\ FsIdle
    /\ TarIdle
    /\ CmpIdle
    /\ max_backups \in 0..MaxKeep
    /\ bk_dir \in [DirNames -> 0..MaxMtime]
    /\ bk_dir[NewBackup] = 0
    /\ \A f \in OtherFiles : bk_dir[f] \in {0, 1}
    /\ \A f, g \in OtherFiles : bk_dir[f] = bk_dir[g]
    /\ bk_at_rotate = bk_dir
    /\ bk_stat \in {NoDir, DirOwnedBy("root"), DirOwnedBy("server")}
    /\ ~bk_stat.exists => Present(bk_dir) = {}
    /\ bk_pc \in (IF impl = "main" THEN {"create"} ELSE {"create", "list"})
    /\ bk_events = {}
    /\ bk_returned = <<>>
    /\ bk_temp_tar = FALSE
    /\ bk_rm_failed = {}

\* what create_backup leaves alone whatever it does
bkFrame == <<cfgVars, service_active, pc, exc, result, success,
             server_stopped, archive_name, extracted_path, fileVars,
             syncVars, attempts, version_probe, stop_probe, signals, trace, failed_steps,
             cmds, cleanupVars, exit_code, fsVars, tarVars, cmpVars, max_backups>>

\* A failure handler that leaves the backup file where it is.
cleanup_failed_backup_skipped(written, rm_ok) == written

\* _cleanup_failed_backup, and the os.remove in the except clause of
\* main.py's create_backup: is the backup file still there afterwards?
cleanup_failed_backup(written, rm_ok) == written /\ ~rm_ok

\* where the creation block of create_backup can break off
FailurePoints == {"nowhere", "temp", "archive", "compress"}

\* what the chown of the finished backup file does
ChownOutcomes == {"ok", "false", "raises"}

\* create_backup up to the rotation.  main.py: run_mkdir (nothing under
\* --dry-run), a dry run returns a fixed example string, any failure returns
\* None.  src/backup.py and src/vs_manager/backup.py: the pre-flight (data
\* directory check, filesystem.mkdir and filesystem.chown of backup_dir, not
\* held back by --dry-run) comes before the dry-run return of the intended
\* path; a failure raises BackupError unless ignore_failure.  main.py and
\* src/backup.py call _rotate_backups only if max_backups > 0,
\* src/vs_manager/backup.py always calls it.
\* The creation block: the temporary tar file (NamedTemporaryFile), the
\* archive written into it, the compression into the backup file, then in
\* main.py os.unlink of the temporary file, then the chown of the backup
\* file.  main.py removes the temporary file nowhere else.  The other two
\* remove it in a finally block if temp_tar_path is bound, which in
\* src/vs_manager/backup.py it is only once _create_temporary_archive has
\* returned.  run_chown (main.py) and _finalize_backup (vs_manager) catch a
\* raising chown, src/backup.py only tests what chown returns.
CreateBackup ==
    /\ bk_pc = "create"
    \* an input is drawn only where the code comes to use it
    /\ \E data_dir_ok \in (IF impl = "main" THEN {TRUE} ELSE BOOLEAN),
          mkdir_ok \in (IF bk_stat.exists THEN {TRUE} ELSE BOOLEAN),
          chown_ok \in (IF impl = "main" THEN {TRUE} ELSE BOOLEAN),
          fails_at \in (IF dry_run THEN {"nowhere"} ELSE FailurePoints) :
      \E partial \in (IF fails_at = "compress" THEN BOOLEAN ELSE {FALSE}),
         chown_file \in (IF fails_at = "nowhere" /\ ~dry_run
                           THEN ChownOutcomes ELSE {"ok"}),
         unlink_ok \in (IF dry_run \/ fails_at = "temp" THEN {TRUE}
                                                       ELSE BOOLEAN) :
       \E rm_ok \in (IF partial \/ (fails_at = "nowhere" /\ ~dry_run)
                       THEN BOOLEAN ELSE {TRUE}) :
         LET real_fs == impl # "main"
             prep_raises ==
                 real_fs /\ (~data_dir_ok
                             \/ (impl = "flat" /\ ~bk_stat.exists /\ ~mkdir_ok))
             makes == ~bk_stat.exists /\ mkdir_ok /\ (real_fs \/ ~dry_run)
             exists1 == bk_stat.exists \/ makes
             chowns == real_fs /\ exists1 /\ chown_ok
             stat1 == [exists |-> exists1,
                       owner |-> IF chowns THEN "server"
                                 ELSE IF makes THEN "root" ELSE bk_stat.owner]
             \* the step at which the creation block is left
             stage == IF fails_at # "nowhere" THEN fails_at
                      ELSE IF ~exists1 THEN "compress"
                      ELSE IF impl = "main" /\ ~unlink_ok THEN "unlink"
                      ELSE IF impl = "flat" /\ chown_file = "raises"
                             THEN "chown"
                      ELSE "nowhere"
             failed == stage # "nowhere"
             temp_made == stage # "temp"
             \* the backup file is on disk when the failure is handled
             written == IF stage = "compress" THEN partial /\ exists1
                        ELSE stage \in {"unlink", "chown"}
             file_left == cleanup_failed_backup(written, rm_ok)
             rotates == max_backups > 0 \/ impl = "vs_manager"
             \* is the removal of the temporary file reached in this action
             temp_tried ==
                 CASE impl = "main" -> stage \in {"unlink", "nowhere"}
                   [] impl = "flat" -> temp_made /\ (failed \/ ~rotates)
                   [] OTHER -> temp_made /\ stage # "archive" /\ failed
             temp_left == temp_made /\ ~(temp_tried /\ unlink_ok)
             raises == failed /\ IF impl = "main" THEN written /\ ~rm_ok
                                 ELSE ~ignore_backup_failure
             chown_seen == stage \in {"chown", "nowhere"} /\ chown_file # "ok"
         IN IF prep_raises
              THEN /\ bk_pc' = "done"
                   /\ backup_file' = "none"
                   /\ bk_returned' = <<>>
                   /\ bk_events' = bk_events \cup {"create_raised"}
                   /\ UNCHANGED <<bk_dir, bk_stat, bk_temp_tar>>
            ELSE IF dry_run
              THEN /\ bk_pc' = "done"
                   /\ backup_file' = "path"
                   /\ bk_returned' = IF impl = "main" THEN <<ExamplePath>>
                                                      ELSE <<IntendedPath>>
                   /\ bk_stat' = stat1
                   /\ UNCHANGED <<bk_dir, bk_events, bk_temp_tar>>
            ELSE IF ~failed
              THEN /\ bk_dir' = [bk_dir EXCEPT ![NewBackup] = MaxMtime + 1]
                   /\ backup_file' = "path"
                   /\ bk_returned' = <<IntendedPath>>
                   /\ bk_stat' = stat1
                   /\ bk_pc' = IF rotates THEN "rotate" ELSE "done"
                   /\ bk_temp_tar' = temp_left
                   /\ bk_events' = bk_events
                        \cup (IF chown_seen THEN {"chown_failed"} ELSE {})
                        \cup (IF temp_tried /\ temp_left
                                THEN {"temp_remove_failed"} ELSE {})
            ELSE /\ bk_dir' = [bk_dir EXCEPT ![NewBackup] =
                                 IF file_left THEN MaxMtime + 1 ELSE 0]
                 /\ backup_file' = "none"
                 /\ bk_returned' = <<>>
                 /\ bk_stat' = stat1
                 /\ bk_pc' = "done"
                 /\ bk_temp_tar' = temp_left
                 /\ bk_events' = bk_events \cup {"backup_failed"}
                      \cup (IF raises THEN {"create_raised"} ELSE {})
                      \cup (IF chown_seen THEN {"chown_failed"} ELSE {})
                      \cup (IF written THEN {"file_written"} ELSE {})
                      \cup (IF written /\ ~rm_ok
                              THEN {"partial_remove_failed"} ELSE {})
                      \cup (IF temp_tried /\ temp_left
                              THEN {"temp_remove_failed"} ELSE {})
    /\ UNCHANGED <<bkFrame, bk_at_rotate, bk_rm_failed>>

\* _rotate_backups with _get_sorted_backups.  In main.py nothing is caught:
\* an error of os.listdir, os.path.getmtime or os.remove leaves the rotation
\* and create_backup's except clause removes the new backup and returns
\* None.  src/backup.py takes 0.0 for a time it cannot read if the error
\* is a FileSystemError and gives the rotation up if it is any other,
\* src/vs_manager/backup.py skips the file; both log a failing removal and
\* go on.  When the rotation is over, the finally block of their
\* create_backup removes the temporary tar file.
RotateBackups ==
    /\ bk_pc = "rotate"
    /\ bk_pc' = "done"
    /\ bk_at_rotate' = bk_dir
    /\ bk_stat' = bk_stat
    /\ \E listing_ok \in (IF max_backups > 0 THEN BOOLEAN ELSE {TRUE}),
          unlink_ok \in (IF bk_temp_tar THEN BOOLEAN ELSE {TRUE}) :
      \E mtime_bad \in (IF listing_ok /\ max_backups > 0
                          THEN {S \in SUBSET Matching(bk_dir) :
                                  Cardinality(S) <= 1}
                          ELSE {{}}) :
       \E tie \in (IF listing_ok /\ max_backups > 0
                     THEN TieRanks ELSE {[f \in DirNames |-> PathRank(f)]}),
          wraps \in (IF mtime_bad # {} THEN Wraps ELSE {TRUE}) :
         LET listed == IF impl = "vs_manager" THEN Matching(bk_dir) \ mtime_bad
                                              ELSE Matching(bk_dir)
             mt == [f \in DirNames |-> IF f \in mtime_bad THEN 0 ELSE bk_dir[f]]
             sorted == SortedBackups(listed, mt, tie)
             doomed == ToDelete(sorted, max_backups)
             temp_left == bk_temp_tar /\ ~unlink_ok
             temp_event == IF temp_left THEN {"temp_remove_failed"} ELSE {}
         IN /\ bk_temp_tar' = temp_left
            /\ IF max_backups <= 0
                 THEN /\ bk_events' = bk_events \cup temp_event
                      /\ UNCHANGED <<bk_dir, backup_file, bk_rm_failed>>
               ELSE IF \/ ~listing_ok
                       \/ (impl = "main" /\ mtime_bad # {})
                       \/ (impl = "flat" /\ ~wraps /\ mtime_bad # {})
                 THEN /\ bk_events' = bk_events \cup temp_event
                           \cup (IF listing_ok THEN {"mtime_failed"}
                                               ELSE {"listing_failed"})
                           \cup (IF impl = "main" THEN {"raised"} ELSE {})
                      /\ bk_dir' = IF impl = "main"
                                     THEN [bk_dir EXCEPT ![NewBackup] = 0]
                                     ELSE bk_dir
                      /\ backup_file' = IF impl = "main" THEN "none"
                                                         ELSE backup_file
                      /\ bk_rm_failed' = bk_rm_failed
               ELSE \E rm_bad \in SUBSET Range(doomed) :
                      LET skipped == impl = "vs_manager" /\ dry_run
                          raised == impl = "main" /\ rm_bad # {}
                          removed ==
                            IF skipped THEN {}
                            ELSE IF raised THEN BeforeFirst(doomed, rm_bad)
                            ELSE Range(doomed) \ rm_bad
                          \* the removals that were tried and failed: in
                          \* main.py the first failure ends the loop
                          failed ==
                            IF skipped THEN {}
                            ELSE IF raised
                              THEN {doomed[i] : i \in
                                     {j \in 1..Len(doomed) :
                                        /\ doomed[j] \in rm_bad
                                        /\ \A k \in 1..(j - 1) :
                                              doomed[k] \notin rm_bad}}
                            ELSE rm_bad
                      IN /\ bk_dir' = [f \in DirNames |->
                                         IF f \in removed
                                            \/ (raised /\ f = NewBackup)
                                           THEN 0 ELSE bk_dir[f]]
                         /\ backup_file' = IF raised THEN "none"
                                                     ELSE backup_file
                         /\ bk_rm_failed' = failed
                         /\ bk_events' = bk_events \cup {"rotated"}
                              \cup temp_event
                              \cup (IF mtime_bad # {} THEN {"mtime_failed"}
                                                      ELSE {})
                              \cup (IF failed # {} THEN {"remove_failed"}
                                                   ELSE {})
                              \cup (IF raised THEN {"raised"} ELSE {})
    /\ bk_returned' = IF backup_file' = "none" THEN <<>> ELSE bk_returned
    /\ UNCHANGED bkFrame

\* list_backups with _get_sorted_backups.  src/backup.py lists backup_dir
\* without asking whether it is there and catches nothing but the
\* FileSystemError of a modification time.  src/vs_manager/backup.py returns
\* [] for a missing directory and for any error.
ListBackups ==
    /\ bk_pc = "list"
    /\ bk_pc' = "done"
    /\ \E listing_ok \in BOOLEAN, tie \in TieRanks, wraps \in Wraps,
          mtime_bad \in {S \in SUBSET Matching(bk_dir) : Cardinality(S) <= 1} :
         LET can_list == bk_stat.exists /\ listing_ok
             listed == IF impl = "vs_manager" THEN Matching(bk_dir) \ mtime_bad
                                                  ELSE Matching(bk_dir)
             mt == [f \in DirNames |-> IF f \in mtime_bad THEN 0 ELSE bk_dir[f]]
             sorted == SortedBackups(listed, mt, tie)
             raises == impl = "flat"
                       /\ (~can_list \/ (mtime_bad # {} /\ ~wraps))
         IN /\ bk_returned' =
                 IF raises \/ ~can_list THEN <<>>
                 ELSE [i \in 1..Len(sorted) |-> PathOf("", sorted[i])]
            /\ bk_events' = bk_events \cup {"listed"}
                 \cup (IF raises THEN {"list_raised"} ELSE {})
                 \cup (IF bk_stat.exists /\ ~listing_ok
                         THEN {"listing_failed"} ELSE {})
                 \cup (IF can_list /\ mtime_bad # {}
                         THEN {"mtime_failed"} ELSE {})
    /\ UNCHANGED <<bkFrame, bk_dir, bk_at_rotate, bk_stat, backup_file,
                   bk_temp_tar, bk_rm_failed>>

NextRotate ==
    \/ CreateBackup
    \/ RotateBackups
    \/ ListBackups

SpecRotate == InitRotate /\ [][NextRotate]_vars

(***************************************************************************)
(* SpecCompare: compare_versions on version strings, for "main"            *)
(* (src/main.py) and "flat" (src/versioning.py).  A string is a sequence   *)
(* of characters.                                                          *)
(***************************************************************************)
CompareImpls == {"main", "flat"}

V_1_19_4 == <<"1", ".", "1", "9", ".", "4">>
V_v1_19_5 == <<"v", "1", ".", "1", "9", ".", "5">>
V_1_19_5 == <<"1", ".", "1", "9", ".", "5">>
V_2_0_0 == <<"2", ".", "0", ".", "0">>
V_1_9_9 == <<"1", ".", "9", ".", "9">>
V_v1_9_9 == <<"v", "1", ".", "9", ".", "9">>
V_1_10_0 == <<"1", ".", "1", "0", ".", "0">>
V_1_19 == <<"1", ".", "1", "9">>
V_v2_0_0 == <<"v", "2", ".", "0", ".", "0">>
NotAVersion == <<"x">>
NumericVersions == {V_1_19_4, V_v1_19_5, V_1_19_5, V_2_0_0, V_1_9_9,
                    V_v1_9_9, V_1_10_0, V_1_19, V_v2_0_0}
VersionStrings == NumericVersions \cup {NotAVersion}

Digits == {"0", "1", "2", "3", "4", "5", "6", "7", "8", "9"}
DigitVal(c) ==
    CASE c = "0" -> 0 [] c = "1" -> 1 [] c = "2" -> 2 [] c = "3" -> 3
      [] c = "4" -> 4 [] c = "5" -> 5 [] c = "6" -> 6 [] c = "7" -> 7
      [] c = "8" -> 8 [] OTHER -> 9

\* ver[1:] if ver.startswith("v") else ver
strip_v(s) == IF Len(s) > 0 /\ s[1] = "v" THEN Tail(s) ELSE s

\* the parts of s between its dots
RECURSIVE SplitDots(_)
SplitDots(s) ==
    IF \A i \in 1..Len(s) : s[i] # "." THEN <<s>>
    ELSE LET i == CHOOSE k \in 1..Len(s) :
                    s[k] = "." /\ \A j \in 1..(k - 1) : s[j] # "."
         IN <<SubSeq(s, 1, i - 1)>> \o SplitDots(SubSeq(s, i + 1, Len(s)))

IsNumber(ds) == ds # <<>> /\ \A i \in 1..Len(ds) : ds[i] \in Digits

RECURSIVE ToNat(_)
ToNat(ds) ==
    IF ds = <<>> THEN 0
    ELSE 10 * ToNat(SubSeq(ds, 1, Len(ds) - 1)) + DigitVal(ds[Len(ds)])

\* the comparison key of a release drops its trailing zeros
RECURSIVE DropTrailingZeros(_)
DropTrailingZeros(r) ==
    IF r # <<>> /\ r[Len(r)] = 0
      THEN DropTrailingZeros(SubSeq(r, 1, Len(r) - 1))
      ELSE r

\* packaging.version.parse of a release: an optional "v", then numbers
\* separated by dots
parse(s) ==
    LET parts == SplitDots(strip_v(s))
    IN IF \A i \in 1..Len(parts) : IsNumber(parts[i])
         THEN [valid |-> TRUE,
               release |-> DropTrailingZeros(
                             [i \in 1..Len(parts) |-> ToNat(parts[i])])]
         ELSE [valid |-> FALSE, release |-> <<>>]

\* An order that looks at the first component only.
ReleaseLess_first_only(a, b) == a # <<>> /\ b # <<>> /\ a[1] < b[1]

\* v1 < v2 on releases: the order of tuples of numbers
RECURSIVE ReleaseLess(_, _)
ReleaseLess(a, b) ==
    IF a = <<>> THEN b # <<>>
    ELSE IF b = <<>> THEN FALSE
    ELSE IF a[1] # b[1] THEN a[1] < b[1]
    ELSE ReleaseLess(Tail(a), Tail(b))

\* compare_versions.  legacy: the packaging library at hand parses a string
\* that is no version into a LegacyVersion, which sorts before every
\* version, instead of raising InvalidVersion.  On an error main.py returns
\* "same" and src/versioning.py raises VersioningError.
compare_versions(im, ver1, ver2, legacy) ==
    LET v1 == parse(strip_v(ver1))
        v2 == parse(strip_v(ver2))
        fails == ~legacy /\ (~v1.valid \/ ~v2.valid)
        less == IF v1.valid /\ v2.valid THEN ReleaseLess(v1.release, v2.release)
                ELSE ~v1.valid /\ v2.valid
        greater == IF v1.valid /\ v2.valid
                     THEN ReleaseLess(v2.release, v1.release)
                     ELSE v1.valid /\ ~v2.valid
    IN IF im = "main"
         THEN [raised |-> FALSE, kind |-> "str", int |-> 0,
               str |-> IF fails THEN "same"
                       ELSE IF greater THEN "newer"
                       ELSE IF less THEN "older" ELSE "same"]
         ELSE [raised |-> fails, kind |-> IF fails THEN "none" ELSE "int",
               str |-> "",
               int |-> IF fails THEN 0
                       ELSE IF less THEN -1 ELSE IF greater THEN 1 ELSE 0]

InitCompare ==
    /\ impl \in CompareImpls
    /\ dry_run = FALSE
    /\ rsync_available = FALSE
    /\ process_runner = FALSE
    /\ RunStandsAt("dispatch")
    /\ ignore_backup_failure = FALSE
    /\ sync_log = <<>>
    /\ sync_status = "not_begun"
    /\ FsIdle
    /\ TarIdle
    /\ BkIdle
    /\ cmp_a \in VersionStrings
    /\ cmp_b \in VersionStrings
    /\ cmp_pc = "call"
    /\ cmp_result = NoResult

\* one call of compare_versions(cmp_a, cmp_b)
CompareVersions ==
    /\ cmp_pc = "call"
    /\ cmp_pc' = "done"
    /\ \E legacy \in BOOLEAN :
         cmp_result' = compare_versions(impl, cmp_a, cmp_b, legacy)
    /\ UNCHANGED <<runVars, fsVars, tarVars, bkVars, cmp_a, cmp_b>>

NextCompare == CompareVersions

SpecCompare == InitCompare /\ [][NextCompare]_vars

\* ---------------------------------------------------------------------
\* Properties of the update run (Spec)

C2_CleanupRestartsStoppedService ==
    (last_cleanup.flag /\ ~last_cleanup.active) => last_cleanup.start_requested

\* C3: of two cleanup calls in sequence the second raises no error, and it
\* issues no start command once server_stopped is false.
C3_SecondCleanupQuiet ==
    cleanup_calls >= 2 =>
        /\ ~last_cleanup.raised
        /\ (~last_cleanup.flag => ~last_cleanup.start_requested)

\* C3, second half alone: a cleanup call that finds server_stopped false
\* issues no start command.
C3_NoStartOnceCleared ==
    (cleanup_calls >= 2 /\ ~last_cleanup.flag) => ~last_cleanup.start_requested

\* C4: the cleanup a termination signal invokes acts on the run's
\* server_stopped flag: a service this run has stopped, and that is not
\* running, gets a start command from the handler before the process exits.
C4_SignalCleanupRestarts ==
    (last_cleanup.by = "signal" /\ last_cleanup.flag /\ ~last_cleanup.active)
        => (last_cleanup.start_requested /\ cleanup_starts >= 1)

\* C5: a sync that has begun is never left part-way: the process does not
\* exit while the sync is neither completed nor failed.
C5_SyncRunsToCompletion ==
    pc = "exited" => sync_status # "in_progress"

\* how often x stands in seq
Count(seq, x) == Cardinality({i \in 1..Len(seq) : seq[i] = x})

\* A run like the end-to-end scenario, in which every step succeeded: not a
\* dry run, not interrupted, mirror tool unavailable, backup neither skipped
\* nor its failure ignored, the service active after the start, and the
\* post-start version probe reporting the target version.
ScenarioRun ==
    /\ pc = "exited"
    /\ ~dry_run
    /\ signals = 0
    /\ ~rsync_available
    /\ ~skip_backup
    /\ ~ignore_backup_failure
    /\ service_active
    /\ version_probe = "match"

\* C12: in a run with the mirror tool unavailable and backup not skipped in
\* which every step succeeds, the stop command is issued exactly once,
\* exactly one backup file is created, the fallback sync and not the mirror
\* is invoked, the start command is issued exactly once, and the final
\* status is success when the version probe reports the target version.
C12_ScenarioRun ==
    ScenarioRun =>
        /\ Count(cmds, "stop") = 1
        /\ Count(cmds, "start") = 1
        /\ Count(trace, "backup") = 1
        /\ backup_file = "path"
        /\ sync_log = <<"fallback">>
        /\ result = "success"

\* The scenario run of the vs_mgr program, over.
C12_Witness ==
    /\ ScenarioRun
    /\ impl = "vs_mgr"
    /\ cmds = <<"stop", "start">>
    /\ sync_log = <<"fallback">>
    /\ result = "success"

\* C13: the stop command is issued only after preflight has confirmed that
\* the service unit exists and that the download URL is accessible; if
\* either check fails the run fails without issuing stop.
C13_StopAfterPreflight ==
    /\ Count(trace, "stop") > 0 =>
          /\ service_exists
          /\ url_accessible
          /\ trace[1] = "preflight"
    /\ Count(cmds, "stop") > 0 => Count(trace, "stop") > 0
    /\ (pc = "exited" /\ ~(service_exists /\ url_accessible)) =>
          /\ Count(trace, "stop") = 0
          /\ Count(cmds, "stop") = 0
          /\ result # "success"
          /\ exit_code = "1"

\* The stop command issued right after a preflight that passed.
C13_Witness ==
    /\ Len(trace) >= 2
    /\ trace[1] = "preflight"
    /\ trace[2] = "stop"
    /\ Len(cmds) >= 1
    /\ cmds[1] = "stop"
    /\ service_exists
    /\ url_accessible

\* the backup step ran and produced no backup
BackupFailed == Count(trace, "backup") > 0 /\ backup_file = "none"

\* C14: when backup is not skipped and the backup creation fails, then with
\* ignore_backup_failure unset the run aborts as failed and fetch, sync and
\* start are never executed, and with ignore_backup_failure set the run
\* goes on to the fetch step.
C14_BackupFailure ==
    /\ (BackupFailed /\ ~ignore_backup_failure) =>
          /\ Count(trace, "fetch") = 0
          /\ Count(trace, "sync") = 0
          /\ Count(trace, "start") = 0
          /\ pc \in {"dispatch_finally", "update_finally", "exited"}
          /\ result # "success"
    /\ (BackupFailed /\ ignore_backup_failure /\ signals = 0) =>
          (pc = "fetch" \/ Count(trace, "fetch") > 0)

\* C14, first half alone: a failed backup that is not to be ignored ends
\* the run before fetch.
C14_AbortsUnlessIgnored ==
    (BackupFailed /\ ~ignore_backup_failure) =>
        /\ Count(trace, "fetch") = 0
        /\ Count(trace, "sync") = 0
        /\ Count(trace, "start") = 0
        /\ result # "success"

\* C15: the fallback sync is run only when the mirror tool is unavailable;
\* after a mirror attempt the fallback is never run (the two strategies are
\* never both attempted in one run), and a run whose mirror attempt failed
\* fails.
C15_NoFallbackAfterMirror ==
    /\ Count(sync_log, "fallback") > 0 => ~rsync_available
    /\ ~(Count(sync_log, "mirror") > 0 /\ Count(sync_log, "fallback") > 0)
    /\ ~(Count(sync_log, "mirror") > 0 /\ pc = "fallback")
    /\ (sync_status = "failed" /\ pc = "exited") => result # "success"

\* the start step ran and its command failed: no status query followed
StartCommandFailed == Count(trace, "start") > 0 /\ attempts = 0

\* the activation poll used up its retry budget without seeing the service
\* active
PollExhausted == attempts = max_attempts /\ ~service_active

\* C16: if the start command fails, or the service does not report active
\* within the retry budget after start, the update run reports failure.
C16_StartFailureFails ==
    (/\ pc = "exited"
     /\ signals = 0
     /\ (StartCommandFailed \/ PollExhausted))
    => result = "failure"

\* C16, first half alone: a failed start command fails the run.
C16_StartCommandFailureFails ==
    (pc = "exited" /\ signals = 0 /\ StartCommandFailed) => result = "failure"

\* C17: if the service started and became active but the version probe
\* reports a version different from the target, the run is not turned into
\* a failed one because of it.
C17_MismatchDoesNotFail ==
    (/\ pc = "exited"
     /\ signals = 0
     /\ service_active
     /\ version_probe = "mismatch")
    => result = "success"

\* C19: the process exit code of the update command is 0 when the update
\* fully succeeds and 1 on any failure, including a version argument that
\* is not of the form X.Y.Z.
C19_ExitCode ==
    pc = "exited" =>
        /\ (result = "success" /\ exc = "none" /\ ~last_cleanup.raised)
              => exit_code = "0"
        /\ result # "success" => exit_code = "1"
        /\ ~version_valid => exit_code = "1"

\* C19, the failure half alone: a run that did not succeed exits with 1.
C19_FailureExitsOne ==
    (pc = "exited" /\ (result # "success" \/ ~version_valid))
        => exit_code = "1"

\* C25: within one process, over all invocations of Cleanup (from the
\* signal handler, from the finally block of the update routine and from
\* the finally block of the dispatcher, in any interleaving), at most one
\* start command is issued for the service.
C25_OneCleanupStart ==
    ~dry_run => cleanup_starts <= 1

\* C26: once the stop command has been issued server_stopped is true,
\* whether or not the command succeeded (until the start step clears it).
C26_StoppedFlagAfterStop ==
    (Count(trace, "stop") > 0 /\ Count(trace, "start") = 0) => server_stopped

\* C27: after the start command server_stopped is reset to false only once
\* the activation poll has seen the service active; if the service never
\* reports active within the retry budget the flag stays true.
C27_FlagClearedOnActivation ==
    [][(server_stopped /\ ~server_stopped')
          => (pc = "poll" /\ service_active')]_vars

\* C30: Cleanup removes the downloaded archive and the extracted tree
\* whenever they are present, whichever step the run stopped at, and a
\* failure to remove one of them is logged and never raised.
C30_CleanupRemovesFiles ==
    last_cleanup.by # "nobody" =>
        /\ last_cleanup.archive_found => last_cleanup.archive_tried
        /\ last_cleanup.tree_found => last_cleanup.tree_tried
        /\ ~last_cleanup.raised

\* the steps of a trace, without the cleanup calls
StepsOf(tr) == SelectSeq(tr, LAMBDA x : x # "cleanup")

IsPrefix(a, b) == Len(a) <= Len(b) /\ a = SubSeq(b, 1, Len(a))

\* the order of the steps of a run, the backup step left out when
\* --skip-backup is given
StepOrder ==
    IF skip_backup
      THEN <<"preflight", "stop", "fetch", "extract", "sync", "start", "verify">>
      ELSE <<"preflight", "stop", "backup", "fetch", "extract", "sync", "start",
             "verify">>

\* The steps executed so far are an initial part of the order, each once;
\* a step that failed is the last one executed, and the run has left the
\* steps; a run goes past the backup step without a backup only if its
\* failure is to be ignored.
OrderAndShortCircuit ==
    LET steps == StepsOf(trace)
    IN /\ IsPrefix(steps, StepOrder)
       /\ failed_steps # {} =>
             /\ steps # <<>>
             /\ failed_steps = {steps[Len(steps)]}
             /\ pc \in {"update_finally", "dispatch_finally", "exited"}
       /\ (Count(trace, "fetch") > 0 /\ ~skip_backup) =>
             (backup_file = "path" \/ ignore_backup_failure)

\* C22: the steps of a run execute strictly in the order preflight, stop,
\* backup (optional), fetch, extract, sync, start, verify; a step executes
\* only if every earlier step succeeded (or the backup was skipped or its
\* failure ignored), and after the first failing step no later step other
\* than Cleanup executes.  The start step has succeeded when the service
\* has been seen active.
C22_StepOrder ==
    /\ OrderAndShortCircuit
    /\ (Count(trace, "verify") > 0 /\ ~dry_run /\ cleanup_calls = 0)
          => service_active

\* C22 with a step taken to have failed when the program says so.
C22_OrderAndShortCircuit == OrderAndShortCircuit

\* C31: a dry run changes nothing: no step of it, the Cleanup routine
\* included, executes a stop or start command, or creates or removes the
\* downloaded archive or the temp directory.
C31_DryRunChangesNothing ==
    [][dry_run => /\ cmds' = cmds
                  /\ archive_present' = archive_present
                  /\ extracted_present' = extracted_present]_vars

\* C31 for the commands alone: a dry run executes no stop or start command.
C31_DryRunNoCommand == dry_run => cmds = <<>>

\* a dry run has gone through its steps and through Cleanup
C31_Witness ==
    /\ dry_run /\ pc = "exited" /\ cleanup_calls > 0
    /\ Count(trace, "stop") > 0 /\ Count(trace, "start") > 0

\* C37: the activation poll terminates: it makes at most max_attempts
\* status queries, it returns (the run goes on to the version check) on the
\* first query that reports the service active, it goes on asking while
\* the queries report inactive and the budget is not used up, and it
\* returns when the last query of the budget did not report active.  (A
\* query that could not be made ends the poll with an error.)
C37_PollTerminates ==
    /\ [](attempts <= max_attempts)
    /\ [][(pc = "poll" /\ attempts' = attempts + 1 /\ signals' = signals)
          => LET raised == "start" \in failed_steps' /\ impl = "vs_mgr"
                            /\ (service_active' \/ attempts' < max_attempts)
             IN /\ service_active' => pc' # "poll"
                /\ (service_active' /\ ~raised) => pc' = "verify"
                /\ (~service_active' /\ attempts' < max_attempts /\ ~raised)
                      => pc' = "poll"
                /\ (~service_active' /\ attempts' = max_attempts)
                      => pc' # "poll"
         ]_vars
    /\ (pc = "poll") ~> (pc # "poll")

\* the poll used up its budget without seeing the service active
C37_Witness ==
    /\ PollExhausted
    /\ pc \notin {"poll", "start"}
    /\ Count(trace, "start") > 0
    /\ signals = 0

\* C38: when the status check after the stop command finds the service
\* still reporting active, the stop step does not fail: the run goes on to
\* the backup step, nothing is recorded as failed and the flag that the run
\* stopped the server stays set.
C38_StillActiveOnlyWarns ==
    [][(stop_probe' = "active" /\ stop_probe # "active")
         => /\ pc = "stop"
            /\ pc' = "backup"
            /\ failed_steps' = failed_steps
            /\ success' = success
            /\ result' = result
            /\ server_stopped']_vars

\* the check found the service still active and the run went on past the
\* backup step
C38_Witness ==
    /\ stop_probe = "active"
    /\ service_active
    /\ ~dry_run
    /\ "stop" \notin failed_steps
    /\ Count(trace, "backup") > 0

\* C40: server_stopped is set only in a run that has gone through the stop
\* step and made its stop command (printed only under --dry-run), and a run
\* that never reached the stop step sees no start command, from cleanup or
\* from anything else.
C40_FlagOnlyAfterStop ==
    /\ server_stopped => /\ Count(trace, "stop") > 0
                         /\ "stop" \notin failed_steps \/ impl = "vs_mgr"
                         /\ ~dry_run => Count(cmds, "stop") > 0
    /\ Count(trace, "stop") = 0 => /\ cleanup_starts = 0
                                   /\ Count(cmds, "start") = 0
                                   /\ ~last_cleanup.start_requested

\* a run that failed its preflight with the service down has run its
\* cleanup and exited
C40_Witness ==
    /\ pc = "exited"
    /\ "preflight" \in failed_steps
    /\ Count(trace, "stop") = 0
    /\ service_exists /\ ~service_active
    /\ cleanup_calls > 0
    /\ last_cleanup.by # "nobody"
    /\ impl # "vs_mgr"

\* ---------------------------------------------------------------------
\* Properties of the file sync (SpecSync)

\* C6: at every point of a sync, by the mirror or by the fallback, the
\* target's preserved entries serverconfig.json, Mods and modconfig are as
\* the sync found them: not removed, not replaced, not modified.
C6_PreservedUntouched ==
    \A n \in preserve_paths : fs_target[n] = fs_before[n]

\* C9: a fallback sync in which no operation failed leaves the target
\* holding every top-level entry of the source with the source's content,
\* the target's preserved entries as they were, nothing else, and no side
\* directory.
C9_FallbackResult ==
    (/\ sync_pc = "done"
     /\ sync_status = "completed"
     /\ sync_log = <<"fallback">>
     /\ ~dry_run
     /\ sync_events = {})
    => /\ \A n \in preserve_paths : fs_target[n] = fs_before[n]
       /\ \A n \in TopNames \ preserve_paths : fs_target[n] = fs_source[n]
       /\ ~fs_side.exists

\* C10: when a copy fails part-way through Install, the sync reports
\* failure, every entry that was moved to the side directory is back in the
\* target, and the side directory is removed, or else the failure of the
\* restore is reported.
C10_InstallFailureRestores ==
    (/\ sync_pc = "done"
     /\ impl # "vs_mgr"
     /\ "copy_failed" \in sync_events)
    => /\ sync_status = "failed"
       /\ \/ "restore_failed" \in sync_events
          \/ /\ "restored" \in sync_events
             /\ \A n \in Items(fs_before) : fs_target[n] = fs_before[n]
             /\ ~fs_side.exists

\* C23: after an Evacuate that failed part-way, every top-level entry the
\* target directory held before the sync still exists, in the target
\* directory or in the side directory: the abort destroys no original
\* entry.
C23_EvacuateAbortKeepsEntries ==
    "evacuate_aborted" \in sync_events =>
        \A n \in Items(fs_before) :
            \/ fs_target[n] # NoEntry
            \/ (fs_side.exists /\ fs_side.entries[n] # NoEntry)

\* C24: the fallback sync reports success, and deletes the side directory
\* holding the old files, only if every top-level source entry was copied
\* into the target directory; a move or a copy that failed is never taken
\* to have succeeded.
C24_SuccessMeansCopied ==
    (/\ sync_pc = "done"
     /\ impl # "vs_mgr"
     /\ ~dry_run
     /\ sync_log = <<"fallback">>
     /\ sync_status = "completed")
    => /\ \A n \in Items(fs_source) : fs_target[n] = fs_source[n]
       /\ "move_failed" \notin sync_events
       /\ "copy_failed" \notin sync_events

\* C28: if moving an entry fails during Evacuate the sync aborts at once:
\* Install is not attempted (no entry of the target is other than it was,
\* or gone), the sync reports failure, and nothing is cleaned up but the
\* side directory.
C28_MoveFailureAborts ==
    "move_failed" \in sync_events =>
        /\ sync_pc = "done"
        /\ sync_status = "failed"
        /\ "evacuate_aborted" \in sync_events
        /\ \A n \in TopNames : fs_target[n] \in {fs_before[n], NoEntry}

\* the restore was run and an entry of the side directory is not back in
\* the target
RestoreFailed ==
    /\ sync_pc = "done"
    /\ sync_events \cap {"restored", "restore_failed"} # {}
    /\ \E n \in Items(fs_side.entries) : fs_target[n] # fs_side.entries[n]

\* C29: if the restore after a failed Install itself fails, the sync
\* reports a critical failure that names the side directory, and the side
\* directory is left in place for manual recovery.
C29_RestoreFailureReported ==
    RestoreFailed =>
        /\ "restore_failed" \in sync_events
        /\ sync_status = "failed"
        /\ fs_side.exists

\* ---------------------------------------------------------------------
\* Properties of the extraction (SpecExtract)

\* C7: the extraction of an archive holding an entry whose path resolves
\* outside the destination directory is rejected, and no file is ever
\* written outside the destination directory.
C7_TraversalRejected ==
    /\ \A w \in tar_written : PathInside(tar_dest, w)
    /\ (/\ tar_pc = "done"
        /\ ~dry_run
        /\ \E m \in tar_members :
             ~PathInside(tar_dest, path_join(tar_dest, m)))
       => tar_result = "rejected"

\* ---------------------------------------------------------------------
\* Properties of the rotation (SpecRotate)

\* After a rotation with limit K > 0 over N matching files, min(N, K)
\* matching files remain and no removed file is more recently modified than
\* a remaining one.
RotationKeepsNewest ==
    LET n == Cardinality(Matching(bk_at_rotate))
        k == max_backups
        kept == Matching(bk_dir)
        removed == Matching(bk_at_rotate) \ kept
    IN /\ Cardinality(kept) = (IF n < k THEN n ELSE k)
       /\ \A f \in kept, g \in removed : bk_at_rotate[f] >= bk_at_rotate[g]

C11_DryRunCreateBackup ==
    [][(/\ dry_run
        /\ bk_pc = "create"
        /\ bk_pc' = "done"
        /\ "create_raised" \notin bk_events')
       => /\ bk_returned' = <<IntendedPath>>
          /\ bk_dir' = bk_dir
          /\ bk_stat' = bk_stat]_vars

\* C11, the files alone: a dry run creates, changes and deletes no file of
\* the backup directory.
C11_DryRunKeepsFiles ==
    [][(dry_run /\ bk_pc = "create") => bk_dir' = bk_dir]_vars

\* C20: list_backups returns an empty sequence, and raises no error, when
\* the backup directory does not exist.
C20_ListAbsentDir ==
    (bk_pc = "done" /\ "listed" \in bk_events /\ ~bk_stat.exists)
        => (bk_returned = <<>> /\ "list_raised" \notin bk_events)

\* C21: when the caller asks for ignore_failure, create_backup never lets a
\* failure out: any failure of the backup makes it return None, it does not
\* raise.
C21_IgnoreFailureNeverRaises ==
    (/\ ignore_backup_failure
     /\ bk_pc = "done"
     /\ "listed" \notin bk_events
     /\ backup_file = "none")
    => /\ "create_raised" \notin bk_events
       /\ bk_returned = <<>>

\* C21 for the failures of the archive's creation alone (the temporary tar,
\* the compression, the chown): with ignore_failure they return None, unless
\* the removal of the partial file fails as well.
C21_CreationFailureIgnored ==
    (/\ ignore_backup_failure
     /\ bk_pc = "done"
     /\ "backup_failed" \in bk_events
     /\ "partial_remove_failed" \notin bk_events)
    => /\ "create_raised" \notin bk_events
       /\ bk_returned = <<>>

\* C32: when the removal of a backup beyond the retention count fails, the
\* rotation still removes every other backup beyond the count, and neither
\* the rotation nor the create_backup around it fails: the new backup stays
\* and its path is returned.
C32_RemovalFailureGoesOn ==
    (/\ bk_pc = "done"
     /\ "rotated" \in bk_events
     /\ bk_rm_failed # {}
     /\ "mtime_failed" \notin bk_events)
    => /\ Cardinality(Matching(bk_dir) \ bk_rm_failed) <= max_backups
       /\ bk_events \cap {"raised", "create_raised"} = {}
       /\ bk_dir[NewBackup] > 0
       /\ bk_returned = <<IntendedPath>>

\* a rotation with two backups to remove, of which one removal failed
C32_Witness ==
    /\ bk_pc = "done"
    /\ "rotated" \in bk_events
    /\ Cardinality(bk_rm_failed) = 1
    /\ Cardinality(Matching(bk_at_rotate)) = max_backups + 2

\* C33: when create_backup has returned or raised, on success and on every
\* failure path, the intermediate (uncompressed) archive it created is gone.
C33_TempArchiveGone == bk_pc = "done" => ~bk_temp_tar

\* C33, allowing for a removal that was tried and failed.
C33_TempArchiveRemovalTried ==
    (bk_pc = "done" /\ bk_temp_tar) => "temp_remove_failed" \in bk_events

\* a create_backup that failed after it had made the intermediate archive
C33_Witness ==
    /\ bk_pc = "done"
    /\ "backup_failed" \in bk_events
    /\ "file_written" \in bk_events
    /\ ~bk_temp_tar

\* C34 as stated: after a create_backup that failed in archiving or in
\* compression, the backup directory holds no file that the call created.
C34_NoPartialBackupLeft ==
    (bk_pc = "done" /\ "backup_failed" \in bk_events)
        => bk_dir[NewBackup] = 0

\* C34, amended: after a create_backup that failed, the backup directory
\* holds a file that the call created only if the removal of that file was
\* tried and failed.
C34_PartialBackupRemoved ==
    (bk_pc = "done" /\ "backup_failed" \in bk_events /\ bk_dir[NewBackup] > 0)
        => "partial_remove_failed" \in bk_events

\* a compression that failed part-way, and the partial file removed
C34_Witness ==
    /\ bk_pc = "done"
    /\ "backup_failed" \in bk_events
    /\ "file_written" \in bk_events
    /\ "chown_failed" \notin bk_events
    /\ bk_dir[NewBackup] = 0

\* C35: a chown of the finished backup file that fails is a warning only:
\* create_backup does not fail because of it, and the finished backup file
\* is not removed because of it.
C35_ChownFailureOnlyWarns ==
    "chown_failed" \in bk_events
      => /\ bk_events \cap {"backup_failed", "create_raised"} = {}
         /\ (bk_events \cap {"raised", "listing_failed", "mtime_failed",
                             "remove_failed"} = {})
              => (bk_dir[NewBackup] > 0 /\ bk_returned = <<IntendedPath>>)

\* a create_backup that went through although the chown failed
C35_Witness ==
    /\ bk_pc = "done"
    /\ "chown_failed" \in bk_events
    /\ "rotated" \in bk_events
    /\ bk_returned = <<IntendedPath>>

\* C36: when create_backup, not a dry run and with a retention count of at
\* least 1, returns a backup path, the file at that path exists: the
\* rotation it runs does not remove the backup just created.
C36_ReturnedBackupExists ==
    (/\ bk_pc = "done"
     /\ ~dry_run
     /\ max_backups >= 1
     /\ bk_returned = <<IntendedPath>>)
    => bk_dir[NewBackup] > 0

\* the rotation removed an older backup and create_backup returned the path
C36_Witness ==
    /\ bk_pc = "done"
    /\ ~dry_run
    /\ "rotated" \in bk_events
    /\ bk_returned = <<IntendedPath>>
    /\ bk_dir # bk_at_rotate
    /\ bk_dir[NewBackup] > 0

\* C39: a file of the backup directory whose name does not match the backup
\* naming pattern is never removed by the rotation and never returned by
\* list_backups.
C39_OtherFilesInvisible ==
    /\ \A f \in OtherFiles : bk_at_rotate[f] > 0 => bk_dir[f] > 0
    /\ "listed" \in bk_events
         => \A i \in 1..Len(bk_returned) : bk_returned[i].file \notin OtherFiles

\* a rotation that removed a backup, or a listing that returned one, with a
\* file of another name in the directory
C39_Witness ==
    /\ bk_pc = "done"
    /\ \E f \in OtherFiles : bk_dir[f] > 0
    /\ \/ ("rotated" \in bk_events /\ bk_dir # bk_at_rotate)
       \/ ("listed" \in bk_events /\ Len(bk_returned) > 1)

\* ---------------------------------------------------------------------
\* Properties of the version comparison (SpecCompare)

\* the numeric components the version strings stand for
Numbers(s) ==
    CASE
         s = V_1_19_4 -> <<1, 19, 4>>
      [] s = V_v1_19_5 -> <<1, 19, 5>>
      [] s = V_1_19_5 -> <<1, 19, 5>>
      [] s = V_2_0_0 -> <<2, 0, 0>>
      [] s = V_1_9_9 -> <<1, 9, 9>>
      [] s = V_v1_9_9 -> <<1, 9, 9>>
      [] s = V_1_10_0 -> <<1, 10, 0>>
      [] s = V_1_19 -> <<1, 19, 0>>
      [] s = V_v2_0_0 -> <<2, 0, 0>>

\* the order of two triples of numbers
TripleOrder(x, y) ==
    IF x = y THEN "same"
    ELSE IF \/ x[1] < y[1]
            \/ (x[1] = y[1] /\ x[2] < y[2])
            \/ (x[1] = y[1] /\ x[2] = y[2] /\ x[3] < y[3])
      THEN "older"
    ELSE "newer"

\* what a result says: src/versioning.py answers -1, 0, 1 for older, same,
\* newer
Outcome(r) ==
    IF r.kind = "str" THEN r.str
    ELSE IF r.kind = "int"
      THEN (IF r.int = -1 THEN "older" ELSE IF r.int = 0 THEN "same" ELSE "newer")
    ELSE "none"

\* C18: compare_versions orders two version strings by their numeric
\* components and ignores a leading "v" on either argument; 1.19.4 against
\* v1.19.5 is older, v1.19.5 against 1.19.5 is same, 2.0.0 against 1.9.9 is
\* newer.
C18_CompareVersions ==
    (cmp_pc = "done" /\ cmp_a \in NumericVersions /\ cmp_b \in NumericVersions)
    => /\ ~cmp_result.raised
       /\ Outcome(cmp_result) = TripleOrder(Numbers(cmp_a), Numbers(cmp_b))
       /\ (cmp_a = V_1_19_4 /\ cmp_b = V_v1_19_5) => Outcome(cmp_result) = "older"
       /\ (cmp_a = V_v1_19_5 /\ cmp_b = V_1_19_5) => Outcome(cmp_result) = "same"
       /\ (cmp_a = V_2_0_0 /\ cmp_b = V_1_9_9) => Outcome(cmp_result) = "newer"

\* 1.19.4 compared with v1.19.5 by src/versioning.py: older.
C18_Witness ==
    /\ cmp_pc = "done"
    /\ impl = "flat"
    /\ cmp_a = V_1_19_4
    /\ cmp_b = V_v1_19_5
    /\ cmp_result.int = -1

====
